---- MODULE Spec2Model ----
(***************************************************************************)
(* A model of the @sdl/bpmn library: the superficial BPMN validation       *)
(* (validateBpmnXml), the render wrapper (generateStaticSVG) with the      *)
(* simulated-browser globals it installs, and the file loader with its     *)
(* time-to-live cache (loadBpmnFile, loadBpmnFileWithCache).                *)
(*                                                                         *)
(* The repository holds two copies of core/svg-generator: the one at       *)
(* src/core/svg-generator.ts and a second one (part_002).  The variable    *)
(* build says which copy is compiled in.                                   *)
(***************************************************************************)
EXTENDS Integers, Sequences, FiniteSets, TLC

VARIABLES build, processEnv, input, vres, gen, globals, fileCache, now, ticks, calls, populated,
          zoomCall, postCall, themeCall, themeObj, paletteCall,
          clearCall

vars == <<build, processEnv, input, vres, gen, globals, fileCache, now, ticks, calls, populated,
          zoomCall, postCall, themeCall, themeObj, paletteCall,
          clearCall>>

(***************************************************************************)
(* Bounds of the model.                                                    *)
(***************************************************************************)
\* the longest input, counted in pieces of Tokens
MaxTokens == 3
\* generateStaticSVG calls that may overlap
MaxRenders == 2
\* loadBpmnFileWithCache calls of one behaviour
MaxCalls == 2
\* advances of the clock
MaxTicks == 2
\* the largest zoom level (zoom factors are counted in steps of one level)
MaxZoomLevel == 3
\* the longest engine output, counted in pieces of SvgTokens
MaxSvgTokens == 3

(***************************************************************************)
(* JavaScript strings are sequences of one-character strings.              *)
(***************************************************************************)
LT == <<"<">>
GT == <<">">>
SP == <<" ">>
CH_X == <<"x">>
DEFINITIONS_OPEN == <<"<", "d", "e", "f", "i", "n", "i", "t", "i", "o", "n", "s">>
BPMN_OPEN == <<"<", "b", "p", "m", "n">>
BPMN_DEFINITIONS_OPEN == <<"<", "b", "p", "m", "n", ":", "d", "e", "f", "i", "n", "i", "t", "i", "o", "n", "s">>
COLON_DEFINITIONS == <<":", "d", "e", "f", "i", "n", "i", "t", "i", "o", "n", "s">>
XMLNS_BPMN == <<"x", "m", "l", "n", "s", ":", "b", "p", "m", "n">>
OMG_BPMN_URL == <<"h", "t", "t", "p", ":", "/", "/", "w", "w", "w", ".", "o", "m", "g", ".", "o", "r", "g", "/", "s", "p", "e", "c", "/", "B", "P", "M", "N">>
PROCESS_OPEN == <<"<", "p", "r", "o", "c", "e", "s", "s">>
BPMN_PROCESS_OPEN == <<"<", "b", "p", "m", "n", ":", "p", "r", "o", "c", "e", "s", "s">>

\* String.prototype.includes
Includes(s, p) == \E i \in 0..(Len(s) - Len(p)) : SubSeq(s, i + 1, i + Len(p)) = p

\* String.prototype.startsWith
StartsWith(s, p) == Len(s) >= Len(p) /\ SubSeq(s, 1, Len(p)) = p

\* the white space String.prototype.trim removes
IsWhiteSpace(c) == c \in {" ", "\t", "\n", "\r"}

RECURSIVE TrimStart(_)
TrimStart(s) == IF s # <<>> /\ IsWhiteSpace(Head(s)) THEN TrimStart(Tail(s)) ELSE s

RECURSIVE TrimEnd(_)
TrimEnd(s) == IF s # <<>> /\ IsWhiteSpace(s[Len(s)]) THEN TrimEnd(SubSeq(s, 1, Len(s) - 1)) ELSE s

\* String.prototype.trim
Trim(s) == TrimEnd(TrimStart(s))

\* (s.match(/c/g) || []).length
CountChar(s, c) == Cardinality({i \in 1..Len(s) : s[i] = c})

(***************************************************************************)
(* JavaScript values passed where a string is expected.  t is the typeof   *)
(* class, s the characters of a string (empty for the others).             *)
(***************************************************************************)
JsString(s) == [t |-> "string", s |-> s]
JsUndefined == [t |-> "undefined", s |-> <<>>]
JsNull == [t |-> "null", s |-> <<>>]
JsZero == [t |-> "zero", s |-> <<>>]
JsNumber == [t |-> "number", s |-> <<>>]
JsObject == [t |-> "object", s |-> <<>>]

NonStrings == {JsUndefined, JsNull, JsZero, JsNumber, JsObject}

\* !v is false
Truthy(v) == IF v.t = "string" THEN v.s # <<>> ELSE v.t \in {"number", "object"}

\* typeof v === 'string'
IsString(v) == v.t = "string"

\* the pieces the inputs are built from
Tokens == {LT, GT, SP, CH_X, DEFINITIONS_OPEN, BPMN_OPEN, COLON_DEFINITIONS,
           XMLNS_BPMN, OMG_BPMN_URL, PROCESS_OPEN}

RECURSIVE Flatten(_)
Flatten(ts) == IF ts = <<>> THEN <<>> ELSE Head(ts) \o Flatten(Tail(ts))

Strings == {Flatten(ts) : ts \in UNION {[1..n -> Tokens] : n \in 0..MaxTokens}}

Inputs == {JsString(s) : s \in Strings} \cup NonStrings

(***************************************************************************)
(* validateBpmnXml                                                         *)
(***************************************************************************)
None == [kind |-> "none"]

MSG_NON_EMPTY == "BPMN XML must be a non-empty string"
MSG_OPENING_TAG == "Invalid XML: must start with opening tag"
MSG_NAMESPACE == "Invalid BPMN: missing BPMN namespace declaration"
MSG_DEFINITIONS == "Invalid BPMN: missing definitions element"
MSG_NO_PROCESS == "BPMN appears to contain no process definitions"
MSG_UNMATCHED == "XML structure may be malformed (unmatched tags)"
MSG_MISSING_BPMN == "Invalid BPMN XML: missing BPMN definitions"

Returned(errors, warnings) ==
    [kind |-> "return", isValid |-> (Len(errors) = 0), errors |-> errors,
     warnings |-> warnings, thrown |-> "", errType |-> "none"]

ThrownSvgError(msg) ==
    [kind |-> "throw", isValid |-> FALSE, errors |-> <<>>, warnings |-> <<>>,
     thrown |-> msg, errType |-> "SvgGenerationError"]

\* openTags !== closeTags
Unmatched(s) == CountChar(s, "<") # CountChar(s, ">")

\* validateBpmnXml with the namespace check asking for both markers
validateBpmnXml_bothMarkers(v) ==
    IF ~Truthy(v) \/ ~IsString(v)
    THEN [Returned(<<MSG_NON_EMPTY>>, <<>>) EXCEPT !.isValid = FALSE]
    ELSE LET e1 == IF ~StartsWith(Trim(v.s), LT) THEN <<MSG_OPENING_TAG>> ELSE <<>>
             e2 == IF ~Includes(v.s, XMLNS_BPMN) \/ ~Includes(v.s, OMG_BPMN_URL)
                   THEN <<MSG_NAMESPACE>> ELSE <<>>
             e3 == IF ~Includes(v.s, DEFINITIONS_OPEN) /\ ~Includes(v.s, BPMN_DEFINITIONS_OPEN)
                   THEN <<MSG_DEFINITIONS>> ELSE <<>>
             w1 == IF ~Includes(v.s, PROCESS_OPEN) /\ ~Includes(v.s, BPMN_PROCESS_OPEN)
                   THEN <<MSG_NO_PROCESS>> ELSE <<>>
             w2 == IF Unmatched(v.s) THEN <<MSG_UNMATCHED>> ELSE <<>>
         IN  Returned(e1 \o e2 \o e3, w1 \o w2)

\* the copy of src/core/svg-generator.ts: every failed check is an entry of errors
validateBpmnXml(v) ==
    IF ~Truthy(v) \/ ~IsString(v)
    THEN [Returned(<<MSG_NON_EMPTY>>, <<>>) EXCEPT !.isValid = FALSE]
    ELSE LET e1 == IF ~StartsWith(Trim(v.s), LT) THEN <<MSG_OPENING_TAG>> ELSE <<>>
             e2 == IF ~Includes(v.s, XMLNS_BPMN) /\ ~Includes(v.s, OMG_BPMN_URL)
                   THEN <<MSG_NAMESPACE>> ELSE <<>>
             e3 == IF ~Includes(v.s, DEFINITIONS_OPEN) /\ ~Includes(v.s, BPMN_DEFINITIONS_OPEN)
                   THEN <<MSG_DEFINITIONS>> ELSE <<>>
             w1 == IF ~Includes(v.s, PROCESS_OPEN) /\ ~Includes(v.s, BPMN_PROCESS_OPEN)
                   THEN <<MSG_NO_PROCESS>> ELSE <<>>
             w2 == IF Unmatched(v.s) THEN <<MSG_UNMATCHED>> ELSE <<>>
         IN  Returned(e1 \o e2 \o e3, w1 \o w2)

\* the copy of part_002: the failed checks are thrown
validateBpmnXml_part002(v) ==
    IF ~Truthy(v) \/ ~IsString(v) THEN ThrownSvgError(MSG_NON_EMPTY)
    ELSE IF ~StartsWith(Trim(v.s), LT) THEN ThrownSvgError(MSG_OPENING_TAG)
    ELSE IF ~Includes(v.s, BPMN_OPEN) /\ ~Includes(v.s, DEFINITIONS_OPEN)
         THEN ThrownSvgError(MSG_MISSING_BPMN)
    ELSE Returned(<<>>, IF Unmatched(v.s) THEN <<MSG_UNMATCHED>> ELSE <<>>)

\* the validateBpmnXml that '../core/svg-generator.js' resolves to
ValidateIn(b, v) == IF b = "core" THEN validateBpmnXml(v) ELSE validateBpmnXml_part002(v)

Builds == {"core", "part002"}


(***************************************************************************)
(* generateStaticSVG                                                       *)
(***************************************************************************)
Renders == 1..MaxRenders

\* a binding of globalThis: absent, the host's own value, or the one of call r's JSDOM
Absent == <<"absent", 0>>
Host == <<"host", 0>>
DomOf(r) == <<"dom", r>>

GlobalNames == {"window", "document", "navigator", "HTMLElement", "SVGElement", "SVGMatrix"}

MSG_GEN_NON_EMPTY == "Invalid BPMN XML: must be a non-empty string"
MSG_UNEXPECTED == "Unexpected error during SVG generation"
MSG_IMPORT_FAILED == "Failed to import BPMN XML"
MSG_SVG_FAILED == "Failed to generate SVG"
WARN_VIEWER_CLEANUP == "Viewer cleanup warning"
WARN_DOM_CLEANUP == "DOM cleanup warning"
WARN_FALLBACK == "Used fallback SVG due to module import issues"

\* where width, height and zoom of a result are taken from
NoMetrics == [width |-> "none", height |-> "none", zoom |-> "none"]
RenderedMetrics == [width |-> "Math.round(viewBox.outer.width)",
                    height |-> "Math.round(viewBox.outer.height)", zoom |-> "finalZoom"]
FallbackMetrics == [width |-> "config.width", height |-> "config.height", zoom |-> "1.0"]

NoResult == [kind |-> "none", errType |-> "none", msg |-> "", hasXml |-> FALSE,
             cause |-> "none", warnings |-> <<>>, metrics |-> NoMetrics]

\* new SvgGenerationError(msg, bpmnXml?, cause?)
SvgGenerationError(msg, hasXml, cause) ==
    [kind |-> "throw", errType |-> "SvgGenerationError", msg |-> msg, hasXml |-> hasXml,
     cause |-> cause, warnings |-> <<>>, metrics |-> NoMetrics]

\* the SvgGenerationResult of a completed render
SvgResult(warnings) ==
    [kind |-> "return", errType |-> "none", msg |-> "", hasXml |-> FALSE,
     cause |-> "none", warnings |-> warnings, metrics |-> RenderedMetrics]

\* the placeholder result of part_002
generateFallbackSvg ==
    [kind |-> "fallback", errType |-> "none", msg |-> "", hasXml |-> FALSE,
     cause |-> "none", warnings |-> <<WARN_FALLBACK>>, metrics |-> FallbackMetrics]

\* the frame of a call: dom and viewer say what was created, closed and destroyed
\* what the cleanup called, raised names the exception the try block ended with,
\* primary is the outcome the try and catch blocks arrived at, steps lists the
\* stages the call has entered, globalsBefore holds the global bindings a call
\* found that was made before any other
IdleGen == [pc |-> "idle", xml |-> JsUndefined, dom |-> FALSE, viewer |-> FALSE,
            result |-> NoResult, raised |-> "none", primary |-> NoResult,
            closed |-> FALSE, destroyed |-> FALSE, steps |-> <<>>,
            globalsBefore |-> [n \in GlobalNames |-> Absent]]

\* the input checks without the one for the BPMN definitions
PreRenderCheck_onlyEmpty(xml) ==
    IF ~Truthy(xml) \/ ~IsString(xml)
    THEN SvgGenerationError(MSG_GEN_NON_EMPTY, FALSE, "none")
    ELSE NoResult

\* the input checks made before anything is created: the error thrown, or NoResult
PreRenderCheck(xml) ==
    IF ~Truthy(xml) \/ ~IsString(xml)
    THEN SvgGenerationError(MSG_GEN_NON_EMPTY, FALSE, "none")
    ELSE IF ~Includes(xml.s, BPMN_OPEN) /\ ~Includes(xml.s, DEFINITIONS_OPEN)
         THEN SvgGenerationError(MSG_MISSING_BPMN, TRUE, "none")
         ELSE NoResult

\* (globalThis as any).window = window; ... of src/core/svg-generator.ts
InstallGlobals(g, r) ==
    [n \in GlobalNames |-> IF n = "SVGMatrix" THEN g[n] ELSE DomOf(r)]

\* the guarded installation of part_002, which also mocks SVGMatrix
InstallGlobals_part002(g, r) ==
    [n \in GlobalNames |->
        IF n = "navigator" THEN (IF g[n] = Absent THEN DomOf(r) ELSE g[n]) ELSE DomOf(r)]

InstallIn(b, g, r) == IF b = "core" THEN InstallGlobals(g, r) ELSE InstallGlobals_part002(g, r)

\* delete (globalThis as any).window; ... in the finally block
DeleteGlobals(g) == [n \in GlobalNames |-> IF n = "SVGMatrix" THEN g[n] ELSE Absent]

\* the warnings the finally block pushes: viewer.destroy() and dom.window.close()
CleanupWarnings(hasViewer, hasDom, destroyThrows, closeThrows) ==
    (IF hasViewer /\ destroyThrows THEN <<WARN_VIEWER_CLEANUP>> ELSE <<>>)
    \o (IF hasDom /\ closeThrows THEN <<WARN_DOM_CLEANUP>> ELSE <<>>)

\* a catch block that rethrows without the original exception
Catch_noCause(err) == SvgGenerationError(MSG_UNEXPECTED, TRUE, "none")

\* the outer catch block for an exception that is no SvgGenerationError
Catch(err) == SvgGenerationError(MSG_UNEXPECTED, TRUE, err)

\* a cleanup whose failure replaces the outcome
Finally_masking(res, hasViewer, hasDom, destroyThrows, closeThrows) ==
    IF (hasViewer /\ destroyThrows) \/ (hasDom /\ closeThrows)
    THEN SvgGenerationError(MSG_UNEXPECTED, FALSE, "cleanupError")
    ELSE res

\* the finally block: a returned result shares the warnings array the cleanup
\* pushes to, a thrown error does not carry it
Finally(res, hasViewer, hasDom, destroyThrows, closeThrows) ==
    IF res.kind = "return"
    THEN [res EXCEPT !.warnings = @ \o CleanupWarnings(hasViewer, hasDom, destroyThrows,
                                                        closeThrows)]
    ELSE res

\* the call settles with res (raised names the exception behind it) through the
\* finally block of a try that created the viewer and the DOM as told
Settle(r, g, res, raised, hasViewer, hasDom, destroyThrows, closeThrows) ==
    /\ gen' = [gen EXCEPT ![r] = [g EXCEPT !.pc = "done", !.dom = hasDom,
                      !.viewer = hasViewer, !.raised = raised, !.primary = res,
                      !.destroyed = hasViewer, !.closed = hasDom,
                      !.result = Finally(res, hasViewer, hasDom, destroyThrows,
                                         closeThrows)]]
    /\ globals' = DeleteGlobals(globals)

\* from new JSDOM(...) to the await of viewer.importXML(bpmnXml)
CreateDomAndViewer(r, g, domThrows, viewerThrows) ==
    IF domThrows
    THEN Settle(r, [g EXCEPT !.steps = @ \o <<"dom">>], Catch("domError"), "domError",
                FALSE, FALSE, FALSE, FALSE)
    ELSE IF viewerThrows
    THEN /\ gen' = [gen EXCEPT ![r] = [g EXCEPT !.pc = "done", !.dom = TRUE,
                       !.raised = "viewerError", !.primary = Catch("viewerError"),
                       !.closed = TRUE, !.result = Catch("viewerError"),
                       !.steps = @ \o <<"dom", "viewer">>]]
         /\ globals' = DeleteGlobals(InstallIn(build, globals, r))
    ELSE /\ gen' = [gen EXCEPT ![r] = [g EXCEPT !.pc = "importXML", !.dom = TRUE,
                       !.viewer = TRUE, !.steps = @ \o <<"dom", "viewer", "importXML">>]]
         /\ globals' = InstallIn(build, globals, r)

\* the values callers pass as bpmnXml
XmlPool == IF input.t = "unset" THEN
              {JsString(BPMN_DEFINITIONS_OPEN \o SP \o XMLNS_BPMN \o GT),
               JsString(CH_X), JsNull}
           ELSE {input}

UnchangedLoader == UNCHANGED <<fileCache, now, ticks, calls, populated, zoomCall, postCall,
                              themeCall, themeObj, paletteCall, clearCall>>

\* generateStaticSVG is called and runs to its first await (or settles)
GenStart(r) ==
    /\ gen[r].pc = "idle"
    /\ \E xml \in XmlPool, domThrows \in BOOLEAN, viewerThrows \in BOOLEAN :
         LET alone == \A q \in Renders \ {r} : gen[q].pc \in {"idle", "off"}
             g == [gen[r] EXCEPT !.xml = xml, !.steps = <<"checks">>,
                                 !.globalsBefore = IF alone THEN globals ELSE @]
             pre == PreRenderCheck(xml)
         IN  IF pre.kind = "throw"
             THEN /\ gen' = [gen EXCEPT ![r] = [g EXCEPT !.pc = "done", !.result = pre,
                                                        !.primary = pre]]
                  /\ UNCHANGED globals
             ELSE IF build = "core"
             THEN CreateDomAndViewer(r, g, domThrows, viewerThrows)
             ELSE IF processEnv.BPMN_USE_FALLBACK
             THEN /\ gen' = [gen EXCEPT ![r] = [g EXCEPT !.pc = "done",
                                !.result = generateFallbackSvg,
                                !.primary = generateFallbackSvg]]
                  /\ UNCHANGED globals
             ELSE /\ gen' = [gen EXCEPT ![r] = [g EXCEPT !.pc = "importModule",
                                                        !.steps = @ \o <<"importModule">>]]
                  /\ UNCHANGED globals
    /\ UNCHANGED <<build, processEnv, input, vres>>
    /\ UnchangedLoader

\* part_002: the dynamic import of the engine settles
ImportModule(r) ==
    /\ gen[r].pc = "importModule"
    /\ \E imported \in BOOLEAN, domThrows \in BOOLEAN, viewerThrows \in BOOLEAN :
         IF ~imported
         THEN /\ gen' = [gen EXCEPT ![r] = [@ EXCEPT !.pc = "done",
                            !.result = generateFallbackSvg,
                            !.primary = generateFallbackSvg]]
              /\ UNCHANGED globals
         ELSE CreateDomAndViewer(r, gen[r], domThrows, viewerThrows)
    /\ UNCHANGED <<build, processEnv, input, vres>>
    /\ UnchangedLoader

\* how an awaited engine call and the synchronous code after it may end
StageOutcomes == {"ok", "rejects", "throwsAfter"}

\* viewer.importXML settles; on success the zoom logic runs up to the await of
\* saveSVG, unless viewer.get or the element registry throws
ImportXML(r) ==
    /\ gen[r].pc = "importXML"
    /\ \E out \in StageOutcomes, destroyThrows \in BOOLEAN, closeThrows \in BOOLEAN :
         IF out = "ok"
         THEN /\ gen' = [gen EXCEPT ![r] = [@ EXCEPT !.pc = "saveSVG",
                                                  !.steps = @ \o <<"zoom", "saveSVG">>]]
              /\ UNCHANGED globals
         ELSE IF out = "rejects"
         THEN Settle(r, gen[r], SvgGenerationError(MSG_IMPORT_FAILED, TRUE, "importError"),
                     "importError", TRUE, TRUE, destroyThrows, closeThrows)
         ELSE Settle(r, [gen[r] EXCEPT !.steps = @ \o <<"zoom">>], Catch("zoomError"),
                     "zoomError", TRUE, TRUE, destroyThrows, closeThrows)
    /\ UNCHANGED <<build, processEnv, input, vres>>
    /\ UnchangedLoader

\* viewer.saveSVG settles; on success the markup is post-processed and returned,
\* unless the post-processing throws
SaveSVG(r) ==
    /\ gen[r].pc = "saveSVG"
    /\ \E out \in StageOutcomes, destroyThrows \in BOOLEAN, closeThrows \in BOOLEAN :
         IF out = "ok"
         THEN Settle(r, [gen[r] EXCEPT !.steps = @ \o <<"post">>], SvgResult(<<>>), "none",
                     TRUE, TRUE, destroyThrows, closeThrows)
         ELSE IF out = "rejects"
         THEN Settle(r, gen[r], SvgGenerationError(MSG_SVG_FAILED, TRUE, "svgError"),
                     "svgError", TRUE, TRUE, destroyThrows, closeThrows)
         ELSE Settle(r, [gen[r] EXCEPT !.steps = @ \o <<"post">>], Catch("postError"),
                     "postError", TRUE, TRUE, destroyThrows, closeThrows)
    /\ UNCHANGED <<build, processEnv, input, vres>>
    /\ UnchangedLoader

(***************************************************************************)
(* validateBpmnXml applied to the input                                    *)
(***************************************************************************)
Validate ==
    /\ input.t # "unset"
    /\ vres = None
    /\ vres' = ValidateIn(build, input)
    /\ UNCHANGED <<build, processEnv, input, gen, globals>>
    /\ UnchangedLoader


UnchangedRender == UNCHANGED <<input, vres, gen, globals, zoomCall, postCall, themeCall,
                              themeObj, paletteCall, clearCall>>

(***************************************************************************)
(* The file loader: loadBpmnFile, loadFromUrl, loadBpmnFileWithCache       *)
(***************************************************************************)
Calls == 1..MaxCalls

\* DEFAULT_FILE_OPTIONS
DEFAULT_TIMEOUT == 30000
DEFAULT_VALIDATE == TRUE
DEFAULT_MAX_SIZE == 10485760
\* options.cacheTtl || 300000
DEFAULT_CACHE_TTL == 300000

\* the step of the clock, and a cacheTtl callers configure
HalfTtl == DEFAULT_CACHE_TTL \div 2

\* an optional field of an options object: <<>> when it is not given
NotGiven == <<>>
Given(x) == <<x>>

\* { ...DEFAULT_FILE_OPTIONS, ...options }: the field of options when given
Merged(opt, default) == IF opt = NotGiven THEN default ELSE opt[1]

\* options.cacheTtl || 300000: the default also replaces a given 0
OrDefault(opt, default) == IF opt = NotGiven \/ opt[1] = 0 THEN default ELSE opt[1]

\* the file contents the server may answer with
DOC_A == BPMN_DEFINITIONS_OPEN \o SP \o XMLNS_BPMN \o GT
DOC_BAD == CH_X
\* one character outside ASCII (U+00E9), two bytes in UTF-8
DOC_WIDE == <<"U+00E9">>
Documents == {DOC_A, DOC_BAD, DOC_WIDE}

\* the content-length header of a response: absent, or the number parseInt reads
DeclaredLengths == {NotGiven, Given(Len(DOC_BAD)), Given(DEFAULT_MAX_SIZE + 1)}

\* the option objects callers pass
NoOptions == [cacheTtl |-> NotGiven, validate |-> NotGiven, maxSize |-> NotGiven]
OptionSets == {NoOptions,
               [NoOptions EXCEPT !.cacheTtl = Given(0)],
               [cacheTtl |-> Given(HalfTtl), validate |-> Given(FALSE),
                maxSize |-> Given(Len(DOC_BAD))]}

\* the filePath arguments callers pass
PATH_A == JsString(<<"a">>)
PATH_B == JsString(<<"b">>)
Paths == {PATH_A, PATH_B, JsString(<<>>), JsUndefined}

\* the size guard counting characters where the code counts bytes
Utf8Bytes_oneEach(c) == 1

\* new TextEncoder().encode(content).length: the bytes of one character
Utf8Bytes(c) == IF c = "U+00E9" THEN 2 ELSE 1
RECURSIVE Utf8Size(_)
Utf8Size(s) == IF s = <<>> THEN 0 ELSE Utf8Bytes(Head(s)) + Utf8Size(Tail(s))

NoEntry == [present |-> FALSE]
NoCause == [type |-> "none", msg |-> ""]
Exception(type, msg) == [type |-> type, msg |-> msg]

\* new FileLoadError(message, filePath, cause?)
FileLoadError(msg, filePath, cause) ==
    [type |-> "FileLoadError", msg |-> msg, filePath |-> filePath, cause |-> cause]

NoOutcome == [kind |-> "none"]
Resolved(result) == [kind |-> "resolved", value |-> result]
Rejected(err) == [kind |-> "rejected", error |-> err]

IdleCall == [pc |-> "idle", path |-> JsUndefined, opts |-> NoOptions, startNow |-> 0,
             fetched |-> FALSE, freshAtCall |-> FALSE, peerResolved |-> FALSE,
             oversize |-> FALSE, raised |-> NoCause, outcome |-> NoOutcome]

\* the catch block wrapping without the cause
WrapError_noCause(err, filePath) ==
    IF err.type = "FileLoadError" THEN err
    ELSE FileLoadError("Failed to load BPMN file", filePath, NoCause)

\* the catch block of loadBpmnFile: a FileLoadError passes, anything else is wrapped
WrapError(err, filePath) ==
    IF err.type = "FileLoadError" THEN err
    ELSE FileLoadError("Failed to load BPMN file", filePath, err)

\* the freshness test with the comparison turned around
CacheHit_inverted(cached, t, cacheTtl) == cached # NoEntry /\ (t - cached.timestamp) > cacheTtl

\* cached && (now - cached.timestamp) < cacheTtl
CacheHit(cached, t, cacheTtl) == cached # NoEntry /\ (t - cached.timestamp) < cacheTtl

\* return { ...cached.result, loadTime: 0 }
CachedCopy(cached) == cached.result

\* filePath of loadBpmnFile is rejected before anything is fetched
InvalidPath(path) == ~Truthy(path) \/ ~IsString(path)

\* the cache holds an entry younger than the time-to-live the caller configured
\* (the default when none is): what the caller takes to be a fresh entry
FreshEntry(cached, t, cfgTtl) ==
    cached # NoEntry /\ (t - cached.timestamp) < Merged(cfgTtl, DEFAULT_CACHE_TTL)

\* the calls whose fetch or body read is still to come
InFlight == {c \in Calls : calls[c].pc \in {"fetch", "body"}}

\* no caller is looking at a call that has just settled
Quiet == \A c \in Calls : calls[c].pc # "done"

\* loadBpmnFileWithCache is called and runs to the await of fetch (or settles)
Begin(c) ==
    /\ Quiet
    /\ calls[c].pc = "idle"
    /\ \A d \in Calls : d < c => calls[d].pc # "idle"
    /\ \E path \in Paths, opts \in OptionSets :
         LET cacheTtl == OrDefault(opts.cacheTtl, DEFAULT_CACHE_TTL)
             cached == fileCache[path]
             k == [calls[c] EXCEPT !.path = path, !.opts = opts, !.startNow = now,
                      !.freshAtCall = FreshEntry(cached, now, opts.cacheTtl)]
         IN  IF CacheHit(cached, now, cacheTtl)
             THEN calls' = [calls EXCEPT ![c] =
                              [k EXCEPT !.pc = "done", !.outcome = Resolved(CachedCopy(cached))]]
             ELSE IF InvalidPath(path)
             THEN calls' = [calls EXCEPT ![c] =
                              [k EXCEPT !.pc = "done", !.outcome = Rejected(FileLoadError(
                                  "Invalid file path: must be a non-empty string",
                                  path, NoCause))]]
             ELSE calls' = [calls EXCEPT ![c] = [k EXCEPT !.pc = "fetch", !.fetched = TRUE,
                                                      !.opts.cacheTtl = NotGiven]]
    /\ UNCHANGED <<build, processEnv, fileCache, now, ticks, populated>>
    /\ UnchangedRender

\* a rejection that also drops the entry of the key
Fail_evicting(c, err) ==
    /\ calls' = [calls EXCEPT ![c] = [@ EXCEPT !.pc = "done", !.raised = err,
                    !.oversize = FALSE, !.outcome = Rejected(WrapError(err, calls[c].path))]]
    /\ fileCache' = [fileCache EXCEPT ![calls[c].path] = NoEntry]
    /\ UNCHANGED populated

\* loadBpmnFile rejects: the rejection passes through loadBpmnFileWithCache
Fail(c, err) ==
    /\ calls' = [calls EXCEPT ![c] = [@ EXCEPT !.pc = "done", !.raised = err,
                    !.oversize = FALSE, !.outcome = Rejected(WrapError(err, calls[c].path))]]
    /\ UNCHANGED <<fileCache, populated>>

\* the response declares a content-length above the configured maxSize
Oversize(contentLength, maxSizeOpt) ==
    contentLength # NotGiven /\ contentLength[1] > Merged(maxSizeOpt, DEFAULT_MAX_SIZE)

\* contentLength && parseInt(contentLength) > options.maxSize
DeclaredTooLarge(contentLength, maxSizeOpt) ==
    contentLength # NotGiven /\ contentLength[1] > Merged(maxSizeOpt, DEFAULT_MAX_SIZE)

\* the fetch promise settles: a network error, the abort of the timer, or a response
\* whose status and declared content-length are checked before the body is read
FetchSettles(c) ==
    /\ Quiet
    /\ calls[c].pc = "fetch"
    /\ LET elapsed == now - calls[c].startNow
       IN  \/ Fail(c, Exception("TypeError", "fetch failed"))
           \/ /\ elapsed >= DEFAULT_TIMEOUT
              /\ Fail(c, Exception("AbortError", "This operation was aborted"))
           \/ /\ elapsed < DEFAULT_TIMEOUT
              /\ \E ok \in BOOLEAN, contentLength \in DeclaredLengths :
                   IF ~ok
                   THEN Fail(c, Exception("Error", "HTTP status"))
                   ELSE IF DeclaredTooLarge(contentLength, calls[c].opts.maxSize)
                   THEN Fail(c, Exception("Error", "File too large"))
                   ELSE /\ calls' = [calls EXCEPT ![c] = [@ EXCEPT !.pc = "body",
                                          !.oversize = Oversize(contentLength,
                                                                calls[c].opts.maxSize)]]
                        /\ UNCHANGED <<fileCache, populated>>
    /\ UNCHANGED <<build, processEnv, now, ticks>>
    /\ UnchangedRender

\* a cache write that keeps an entry already there
CacheWrite_keepExisting(cache, path, result, timestamp) ==
    IF cache[path] # NoEntry THEN cache
    ELSE [cache EXCEPT ![path] = [present |-> TRUE, result |-> result, timestamp |-> timestamp]]

\* fileCache.set(filePath, { result: { ...result }, timestamp: now })
CacheWrite(cache, path, result, timestamp) ==
    [cache EXCEPT ![path] = [present |-> TRUE, result |-> result, timestamp |-> timestamp]]

\* response.text() settles; the size guard and the validation of loadBpmnFile follow,
\* and on success loadBpmnFileWithCache caches the result and returns it
BodySettles(c) ==
    /\ Quiet
    /\ calls[c].pc = "body"
    /\ \/ Fail(c, Exception("TypeError", "body stream failed"))
       \/ \E content \in Documents :
            LET maxSize == Merged(calls[c].opts.maxSize, DEFAULT_MAX_SIZE)
                validate == Merged(calls[c].opts.validate, DEFAULT_VALIDATE)
                size == Utf8Size(content)
                validation == ValidateIn(build, JsString(content))
                result == [content |-> content, size |-> size,
                           validation |-> IF validate THEN validation ELSE None]
                peers == {d \in InFlight \ {c} : calls[d].path = calls[c].path}
            IN  IF size > maxSize
                THEN Fail(c, Exception("Error", "File too large"))
                ELSE IF validate /\ validation.kind = "throw"
                THEN Fail(c, Exception(validation.errType, validation.thrown))
                ELSE IF validate /\ ~validation.isValid
                THEN Fail(c, FileLoadError("Invalid BPMN content", calls[c].path, NoCause))
                ELSE /\ fileCache' = CacheWrite(fileCache, calls[c].path, result,
                                                calls[c].startNow)
                     /\ calls' = [d \in Calls |->
                            IF d = c THEN [calls[c] EXCEPT !.pc = "done",
                                                           !.oversize = FALSE,
                                                           !.outcome = Resolved(result)]
                            ELSE IF d \in peers THEN [calls[d] EXCEPT !.peerResolved = TRUE]
                            ELSE calls[d]]
                     /\ populated' = [populated EXCEPT ![calls[c].path] = content]
    /\ UNCHANGED <<build, processEnv, now, ticks>>
    /\ UnchangedRender

\* the caller has its result (or its rejection): the call is over
Release(c) ==
    /\ calls[c].pc = "done"
    /\ calls' = [calls EXCEPT ![c] = [IdleCall EXCEPT !.pc = "over"]]
    /\ UNCHANGED <<build, processEnv, fileCache, now, ticks, populated>>
    /\ UnchangedRender

\* what clearBpmnFileCache may be called with
ClearArgs == Paths

\* clearBpmnFileCache(filePath?): a falsy filePath clears every entry
clearBpmnFileCache(cache, arg) ==
    IF Truthy(arg) THEN [cache EXCEPT ![arg] = NoEntry] ELSE [p \in Paths |-> NoEntry]

ClearCache ==
    /\ Quiet
    /\ \E arg \in ClearArgs :
         /\ fileCache' = clearBpmnFileCache(fileCache, arg)
         /\ fileCache' # fileCache
         /\ populated' = [p \in Paths |-> IF fileCache'[p] = NoEntry THEN <<>> ELSE populated[p]]
    /\ UNCHANGED <<build, processEnv, now, ticks, calls>>
    /\ UnchangedRender

\* a cache entry as a resolved load of a document at time 0 left it
EntryOf(content, validate) ==
    [present |-> TRUE,
     result |-> [content |-> content, size |-> Utf8Size(content),
                 validation |-> IF validate THEN validateBpmnXml(JsString(content)) ELSE None],
     timestamp |-> 0]

ClearIdle == clearCall = [pc |-> "off", arg |-> JsUndefined, before |-> [p \in Paths |-> NoEntry],
                          path |-> JsUndefined, fetched |-> FALSE]

\* clearBpmnFileCache(arg) on a populated cache; the cache before the call is kept
ClearStep ==
    /\ clearCall.pc = "idle"
    /\ \E arg \in ClearArgs :
         /\ fileCache' = clearBpmnFileCache(fileCache, arg)
         /\ clearCall' = [clearCall EXCEPT !.pc = "cleared", !.arg = arg, !.before = fileCache]
    /\ UNCHANGED <<build, processEnv, now, ticks, calls, populated>>
    /\ UNCHANGED <<input, vres, gen, globals, zoomCall, postCall, themeCall, themeObj, paletteCall>>

\* the next loadBpmnFileWithCache(path) after the clear, up to its cache test
ReloadStep ==
    /\ clearCall.pc = "cleared"
    /\ \E path \in Paths :
         clearCall' = [clearCall EXCEPT !.pc = "reloaded", !.path = path,
                          !.fetched = /\ ~CacheHit(fileCache[path], now,
                                                   OrDefault(NotGiven, DEFAULT_CACHE_TTL))
                                      /\ ~InvalidPath(path)]
    /\ UNCHANGED <<build, processEnv, fileCache, now, ticks, calls, populated>>
    /\ UNCHANGED <<input, vres, gen, globals, zoomCall, postCall, themeCall, themeObj, paletteCall>>

\* the steps Date.now() advances by
TickSteps == {HalfTtl}

Tick ==
    /\ Quiet
    /\ ticks < MaxTicks
    /\ \E d \in TickSteps : now' = now + d
    /\ ticks' = ticks + 1
    /\ UNCHANGED <<build, processEnv, fileCache, calls, populated>>
    /\ UnchangedRender

(***************************************************************************)
(* The zoom and viewport step of generateStaticSVG, between importXML and  *)
(* saveSVG                                                                 *)
(***************************************************************************)
ZoomLevels == 1..MaxZoomLevel

\* what canvas.zoom() may read back after the fit
FittedLevels == 0..(MaxZoomLevel + 1)

WARN_ZOOM_MIN == "Zoom constrained to minimum"
WARN_ZOOM_MAX == "Zoom constrained to maximum"
WARN_ZOOM_FIT_FAILED == "Zoom fit failed, using default"
WARN_MATRIX == "Matrix operations unavailable in headless mode"
WARN_CALCULATED == "Using calculated zoom"
WARN_SET_VIEWBOX == "Applied setViewbox centering"
WARN_SCROLL == "Applied scroll centering"
WARN_VIEWBOX_FAILED == "Viewbox centering failed"
WARN_BASIC_FAILED == "Basic zoom failed"

\* the merged config fields the step reads
ZoomConfigs == [fitViewport : BOOLEAN, zoom : ZoomLevels, minZoom : ZoomLevels,
                maxZoom : ZoomLevels]

Min2(a, b) == IF a < b THEN a ELSE b
Max2(a, b) == IF a > b THEN a ELSE b

\* what the step leaves: finalZoom, the warnings pushed, the zoom the engine
\* fitted (<<>> when the fit threw or was not asked for), and whether the step
\* threw to the catch block of generateStaticSVG
ZoomOutcome(finalZoom, warnings, fitted, thrown) ==
    [finalZoom |-> finalZoom, warnings |-> warnings, fitted |-> fitted, thrown |-> thrown]

\* the min/max branch: thrown is TRUE when canvas.zoom(finalZoom) throws
ClampZoom(cfg, currentZoom, applyThrows) ==
    IF currentZoom < cfg.minZoom
    THEN [thrown |-> applyThrows, finalZoom |-> cfg.minZoom, warnings |-> <<WARN_ZOOM_MIN>>]
    ELSE IF currentZoom > cfg.maxZoom
    THEN [thrown |-> applyThrows, finalZoom |-> cfg.maxZoom, warnings |-> <<WARN_ZOOM_MAX>>]
    ELSE [thrown |-> FALSE, finalZoom |-> currentZoom, warnings |-> <<>>]

\* catch (zoomError): the warning, canvas.zoom(config.zoom), finalZoom = config.zoom
ZoomFitFailed(cfg, fitted, warnings, defaultThrows) ==
    ZoomOutcome(cfg.zoom, warnings \o <<WARN_ZOOM_FIT_FAILED>>, fitted, defaultThrows)

\* src/core/svg-generator.ts: fit, read back, clamp; a throw falls back to config.zoom
ApplyZoom(cfg, nonEmpty, fitThrows, currentZoom, applyThrows, defaultThrows) ==
    IF cfg.fitViewport /\ nonEmpty
    THEN IF fitThrows
         THEN ZoomFitFailed(cfg, <<>>, <<>>, defaultThrows)
         ELSE LET c == ClampZoom(cfg, currentZoom, applyThrows)
              IN  IF c.thrown
                  THEN ZoomFitFailed(cfg, <<currentZoom>>, <<>>, defaultThrows)
                  ELSE ZoomOutcome(c.finalZoom, c.warnings, <<currentZoom>>, FALSE)
    ELSE ZoomOutcome(cfg.zoom, <<>>, <<>>, defaultThrows)

\* the warning of the centering attempt of part_002
CenteringWarning(centering) ==
    IF centering = "setViewbox" THEN <<WARN_SET_VIEWBOX>>
    ELSE IF centering = "scroll" THEN <<WARN_SCROLL>>
    ELSE IF centering = "failed" THEN <<WARN_VIEWBOX_FAILED>>
    ELSE <<>>

Centerings == {"setViewbox", "scroll", "failed", "none"}

\* part_002: the fit sits in an inner try whose catch calculates the zoom from
\* the bounds of the diagram (scaleX, scaleY), when it has them; resizing the
\* container comes first and throws to the outer catch
ApplyZoom_part002(cfg, nonEmpty, hasBounds, setupThrows, fitThrows, currentZoom, applyThrows, defaultThrows, centering, scaleX, scaleY) ==
    IF cfg.fitViewport /\ nonEmpty
    THEN IF hasBounds /\ setupThrows
         THEN ZoomFitFailed(cfg, <<>>, <<>>, defaultThrows)
         ELSE
         LET c == ClampZoom(cfg, currentZoom, applyThrows)
             cw == IF hasBounds /\ currentZoom # 0 THEN CenteringWarning(centering) ELSE <<>>
             fitted == IF fitThrows THEN <<>> ELSE <<currentZoom>>
             before == IF fitThrows THEN <<>> ELSE cw
         IN  IF fitThrows \/ c.thrown
             THEN IF hasBounds
                  THEN ZoomOutcome(Max2(Min2(Min2(scaleX, scaleY), cfg.maxZoom), cfg.minZoom),
                                   before \o <<WARN_MATRIX, WARN_CALCULATED>>, fitted, FALSE)
                  ELSE ZoomOutcome(cfg.zoom, before \o <<WARN_MATRIX>>, fitted, FALSE)
             ELSE ZoomOutcome(c.finalZoom, cw \o c.warnings, fitted, FALSE)
    ELSE ZoomOutcome(cfg.zoom, IF defaultThrows THEN <<WARN_BASIC_FAILED>> ELSE <<>>,
                     <<>>, FALSE)

NoZoomOutcome == ZoomOutcome(0, <<>>, <<>>, FALSE)

\* no zoom step under way
ZoomIdle ==
    zoomCall = [pc |-> "off", cfg |-> [fitViewport |-> TRUE, zoom |-> 1, minZoom |-> 1,
                                        maxZoom |-> 1],
                nonEmpty |-> FALSE, hasBounds |-> FALSE, out |-> NoZoomOutcome]

\* the scale factors config.width / bounds.width and config.height / bounds.height
Scales == {<<x, y>> \in FittedLevels \X FittedLevels : x <= y}

\* the step runs on the imported diagram, up to the await of saveSVG
ZoomStep ==
    /\ zoomCall.pc = "importXML"
    /\ \E fitThrows \in BOOLEAN, currentZoom \in FittedLevels, applyThrows \in BOOLEAN,
          defaultThrows \in BOOLEAN :
         IF build = "core"
         THEN zoomCall' = [zoomCall EXCEPT !.pc = "saveSVG", !.out =
                  ApplyZoom(zoomCall.cfg, zoomCall.nonEmpty, fitThrows, currentZoom,
                            applyThrows, defaultThrows)]
         ELSE \E setupThrows \in BOOLEAN, centering \in Centerings, sc \in Scales :
                zoomCall' = [zoomCall EXCEPT !.pc = "saveSVG", !.out =
                  ApplyZoom_part002(zoomCall.cfg, zoomCall.nonEmpty, zoomCall.hasBounds,
                                    setupThrows, fitThrows, currentZoom, applyThrows,
                                    defaultThrows, centering, sc[1], sc[2])]
    /\ UNCHANGED <<build, processEnv, input, vres, gen, globals, postCall, themeCall>>
    /\ UNCHANGED <<themeObj, paletteCall, clearCall>>
    /\ UNCHANGED <<fileCache, now, ticks, calls, populated>>

(***************************************************************************)
(* The post-processing of the markup saveSVG resolves with.  Markup is a   *)
(* sequence of pieces; ">" is a piece of its own and no other piece holds  *)
(* a '>' or the text '<svg'.                                               *)
(***************************************************************************)
NL == "\n"
XML_DECL_START == "<?xml version='1.0'?"
SVG_START == "<svg"
SVG_END == "</svg"
VIEWBOX_ATTR == " viewBox='0 0 10 10'"
VIEWBOX_FIXED == " viewBox='151 75 1043 644.2952270507812'"
ELEMENT_START == "<g class='djs-element' data-element-id='StartEvent_12mgqza' style='display: block;'"
ELEMENT_TRANSFORM == " transform='matrix(1 0 0 1 156 422)'"
THEME_CSS == "ornlCss"
EXTRA_CSS == "additionalCss"

\* the pieces engine outputs are built from
SvgTokens == {<<XML_DECL_START, ">">>, <<SVG_START, ">">>, <<SVG_START, VIEWBOX_ATTR, ">">>,
              <<ELEMENT_START, ">">>, <<SVG_END, ">">>, <<"text">>}

SvgOutputs == {Flatten(ts) : ts \in UNION {[1..n -> SvgTokens] : n \in 0..MaxSvgTokens}}

\* String.prototype.indexOf(c): counted from 0, -1 when c does not occur
RECURSIVE IndexOf(_, _)
IndexOf(s, c) ==
    IF s = <<>> THEN -1
    ELSE IF Head(s) = c THEN 0
    ELSE LET i == IndexOf(Tail(s), c) IN IF i = -1 THEN -1 ELSE i + 1

\* String.prototype.slice(from, to) and slice(from)
Slice(s, from, to) == SubSeq(s, from + 1, to)
SliceFrom(s, from) == SubSeq(s, from + 1, Len(s))

\* svg.match(/<svg[^>]*>/) is not null
MatchesSvgOpenTag(s) ==
    \E i \in 1..Len(s) : s[i] = SVG_START /\ \E j \in (i + 1)..Len(s) : s[j] = ">"

\* [ornlCss, additionalCss].filter(Boolean).join('\n')
CompleteCss(ornlCss, additionalCss) ==
    IF ornlCss = <<>> THEN additionalCss
    ELSE IF additionalCss = <<>> THEN ornlCss
    ELSE ornlCss \o <<NL>> \o additionalCss

\* `<style><![CDATA[${completeCss}]]></style>`
StyleTag(css) == <<"<style", ">", "<![CDATA[">> \o css \o <<"]]", ">", "</style", ">">>

\* applyOrnlThemeToSvg: the splice is made after the first '>' of the markup
applyOrnlThemeToSvg(svg, additionalCss) ==
    LET styleTag == StyleTag(CompleteCss(<<THEME_CSS>>, additionalCss))
    IN  IF MatchesSvgOpenTag(svg)
        THEN LET insertIndex == IndexOf(svg, ">") + 1
             IN  Slice(svg, 0, insertIndex) \o <<NL>> \o styleTag \o <<NL>>
                 \o SliceFrom(svg, insertIndex)
        ELSE styleTag \o <<NL>> \o svg

\* svg.replace(/viewBox="[^"]*"/, ...): the first viewBox attribute is replaced
RECURSIVE ReplaceFirstViewBox(_)
ReplaceFirstViewBox(s) ==
    IF s = <<>> THEN <<>>
    ELSE IF Head(s) = VIEWBOX_ATTR THEN <<VIEWBOX_FIXED>> \o Tail(s)
    ELSE <<Head(s)>> \o ReplaceFirstViewBox(Tail(s))

\* the transform matrix goes after the style attribute of each listed element
\* whose tag is closed
RECURSIVE AddMatrices(_)
AddMatrices(s) ==
    IF s = <<>> THEN <<>>
    ELSE IF Head(s) = ELEMENT_START /\ \E j \in 2..Len(s) : s[j] = ">"
    THEN <<ELEMENT_START, ELEMENT_TRANSFORM>> \o AddMatrices(Tail(s))
    ELSE <<Head(s)>> \o AddMatrices(Tail(s))

\* addElementTransforms of part_002
addElementTransforms(svg) == ReplaceFirstViewBox(AddMatrices(svg))

\* if (optimalBounds) svg = addElementTransforms(svg, optimalBounds), part_002 only
Positioned(b, svg, optimalBounds) ==
    IF b = "part002" /\ optimalBounds THEN addElementTransforms(svg) ELSE svg

\* from `let { svg } = svgResult` to the markup of the result
PostProcess(b, svg, optimalBounds, includeTheme, additionalCss) ==
    IF includeTheme
    THEN applyOrnlThemeToSvg(Positioned(b, svg, optimalBounds), additionalCss)
    ELSE Positioned(b, svg, optimalBounds)

PostIdle ==
    postCall = [pc |-> "off", svg |-> <<>>, optimalBounds |-> FALSE, includeTheme |-> FALSE,
                additionalCss |-> <<>>, positioned |-> <<>>, out |-> <<>>]

\* viewer.saveSVG has resolved: the markup is post-processed and returned
PostStep ==
    /\ postCall.pc = "saveSVG"
    /\ postCall' = [postCall EXCEPT !.pc = "done",
           !.positioned = Positioned(build, postCall.svg, postCall.optimalBounds),
           !.out = PostProcess(build, postCall.svg, postCall.optimalBounds,
                               postCall.includeTheme, postCall.additionalCss)]
    /\ UNCHANGED <<build, processEnv, input, vres, gen, globals, zoomCall, themeCall>>
    /\ UNCHANGED <<themeObj, paletteCall, clearCall>>
    /\ UNCHANGED <<fileCache, now, ticks, calls, populated>>

(***************************************************************************)
(* The theme module.  A theme value is a string or undefined; the string   *)
(* generateOrnlCssVariables returns is the sequence of its pieces: the     *)
(* name of a declaration, ": ", its value, and "; " between declarations.  *)
(***************************************************************************)
MaxSupplied == 1
\* a colour literal is the sequence of its characters
ORNL_COLORS ==
    [PRIMARY |-> <<"#", "0", "0", "6", "6", "2", "C">>, SECONDARY |-> <<"#", "0", "0", "4", "5", "4", "D">>,
     NEUTRAL |-> <<"#", "D", "B", "D", "C", "D", "B">>, TEXT_PRIMARY |-> <<"#", "3", "7", "3", "A", "3", "6">>,
     WHITE |-> <<"#", "F", "F", "F", "F", "F", "F">>, BLACK |-> <<"#", "0", "0", "0", "0", "0", "0">>]

\* an accent map with a three-digit shorthand
ORNL_ACCENTS_shorthand ==
    [FORGE |-> <<"#", "F", "5", "0">>, SPARK |-> <<"#", "F", "5", "B", "8", "0", "0">>,
     PLASMA |-> <<"#", "0", "0", "7", "7", "C", "8">>, PULSAR |-> <<"#", "7", "0", "2", "F", "8", "A">>]

ORNL_ACCENTS ==
    [FORGE |-> <<"#", "F", "E", "5", "0", "0", "0">>, SPARK |-> <<"#", "F", "5", "B", "8", "0", "0">>,
     PLASMA |-> <<"#", "0", "0", "7", "7", "C", "8">>, PULSAR |-> <<"#", "7", "0", "2", "F", "8", "A">>]

\* a mapping whose TASK is a literal of its own
BPMN_SEMANTIC_COLORS_ownTask ==
    [START_EVENT |-> ORNL_ACCENTS.SPARK, END_EVENT |-> ORNL_ACCENTS.FORGE,
     TASK |-> <<"#", "0", "0", "6", "6", "2", "D">>, GATEWAY |-> ORNL_ACCENTS.PLASMA,
     SEQUENCE_FLOW |-> ORNL_COLORS.TEXT_PRIMARY, POOL |-> ORNL_COLORS.NEUTRAL,
     TEXT |-> ORNL_COLORS.TEXT_PRIMARY, BORDER |-> ORNL_COLORS.SECONDARY,
     BACKGROUND |-> ORNL_COLORS.WHITE, ERROR |-> ORNL_ACCENTS.FORGE,
     HIGHLIGHT |-> ORNL_ACCENTS.PULSAR]

BPMN_SEMANTIC_COLORS ==
    [START_EVENT |-> ORNL_ACCENTS.SPARK, END_EVENT |-> ORNL_ACCENTS.FORGE,
     TASK |-> ORNL_COLORS.PRIMARY, GATEWAY |-> ORNL_ACCENTS.PLASMA,
     SEQUENCE_FLOW |-> ORNL_COLORS.TEXT_PRIMARY, POOL |-> ORNL_COLORS.NEUTRAL,
     TEXT |-> ORNL_COLORS.TEXT_PRIMARY, BORDER |-> ORNL_COLORS.SECONDARY,
     BACKGROUND |-> ORNL_COLORS.WHITE, ERROR |-> ORNL_ACCENTS.FORGE,
     HIGHLIGHT |-> ORNL_ACCENTS.PULSAR]

\* a spread that keeps only the properties of the second object
SpreadMaps_secondOnly(a, b) == b

\* { ...a, ...b }: the properties of both, those of b winning
SpreadMaps(a, b) ==
    [k \in (DOMAIN a) \cup (DOMAIN b) |-> IF k \in DOMAIN b THEN b[k] ELSE a[k]]

COMPLETE_PALETTE == SpreadMaps(SpreadMaps(ORNL_COLORS, ORNL_ACCENTS), BPMN_SEMANTIC_COLORS)

\* the exported maps by name
PaletteMaps ==
    [ORNL_COLORS |-> ORNL_COLORS, ORNL_ACCENTS |-> ORNL_ACCENTS,
     BPMN_SEMANTIC_COLORS |-> BPMN_SEMANTIC_COLORS, COMPLETE_PALETTE |-> COMPLETE_PALETTE]

\* the string of a sequence of characters
RECURSIVE Text(_)
Text(chars) == IF chars = <<>> THEN "" ELSE Head(chars) \o Text(Tail(chars))

NoLookup == [made |-> FALSE, map |-> "", token |-> "", value |-> <<>>]

PaletteIdle == paletteCall = [prev |-> NoLookup, last |-> NoLookup]

\* a property read MAP.TOKEN; the read before it is kept
PaletteLookup ==
    /\ \E map \in DOMAIN PaletteMaps : \E token \in DOMAIN PaletteMaps[map] :
         paletteCall' = [prev |-> paletteCall.last,
                         last |-> [made |-> TRUE, map |-> map, token |-> token,
                                   value |-> PaletteMaps[map][token]]]
    /\ UNCHANGED <<build, processEnv, input, vres, gen, globals, zoomCall, postCall>>
    /\ UNCHANGED <<fileCache, now, ticks, calls, populated, themeCall, themeObj, clearCall>>

ThemeString(str) == [t |-> "string", s |-> str]
ThemeUndefined == [t |-> "undefined", s |-> ""]

\* the fields of BpmnThemeOptions
ThemeFields ==
    {"primaryColor", "secondaryColor", "backgroundColor", "textColor", "errorColor",
     "fontFamily", "fontSize", "borderWidth", "borderRadius"}

DEFAULT_ORNL_THEME ==
    [primaryColor |-> ThemeString(Text(ORNL_COLORS.PRIMARY)),
     secondaryColor |-> ThemeString(Text(ORNL_COLORS.SECONDARY)),
     backgroundColor |-> ThemeString(Text(ORNL_COLORS.WHITE)),
     textColor |-> ThemeString(Text(ORNL_COLORS.TEXT_PRIMARY)),
     errorColor |-> ThemeString(Text(BPMN_SEMANTIC_COLORS.ERROR)),
     fontFamily |-> ThemeString("Inter, system-ui, -apple-system, sans-serif"),
     fontSize |-> ThemeString("12px"),
     borderWidth |-> ThemeString("1.5px"),
     borderRadius |-> ThemeString("4px")]

\* a value a caller passes for each field that is not the default
Overrides ==
    [primaryColor |-> Text(ORNL_COLORS.BLACK), secondaryColor |-> Text(ORNL_COLORS.PRIMARY),
     backgroundColor |-> Text(ORNL_COLORS.NEUTRAL), textColor |-> Text(ORNL_COLORS.BLACK),
     errorColor |-> Text(BPMN_SEMANTIC_COLORS.HIGHLIGHT), fontFamily |-> "monospace",
     fontSize |-> "14px", borderWidth |-> "2px", borderRadius |-> "0"]

\* what a caller passes for a field: a string, and for the first field also an
\* explicit undefined (the spread treats every field alike)
SuppliedValues(f) ==
    {ThemeString(Overrides[f])} \cup (IF f = "primaryColor" THEN {ThemeUndefined} ELSE {})

\* the options objects: at most MaxSupplied fields present
ThemeOptions ==
    UNION {{o \in [D -> UNION {SuppliedValues(f) : f \in D}] :
                \A f \in D : o[f] \in SuppliedValues(f)} :
           D \in {D \in SUBSET ThemeFields : Cardinality(D) <= MaxSupplied}}

\* { ...defaults, ...options }: own properties of options win, undefined included
SpreadTheme(defaults, options) ==
    [f \in ThemeFields |-> IF f \in DOMAIN options THEN options[f] ELSE defaults[f]]

\* ${value} in a template literal
TemplateString(v) == IF v.t = "undefined" THEN "undefined" ELSE v.s

RECURSIVE JoinPieces(_, _)
JoinPieces(items, sep) ==
    IF items = <<>> THEN <<>>
    ELSE IF Len(items) = 1 THEN items[1]
    ELSE items[1] \o <<sep>> \o JoinPieces(Tail(items), sep)

Declaration(name, v) == <<name, ": ", TemplateString(v)>>

CssVariables(theme) ==
    JoinPieces(<<Declaration("--ornl-primary", theme.primaryColor),
                 Declaration("--ornl-secondary", theme.secondaryColor),
                 Declaration("--ornl-background", theme.backgroundColor),
                 Declaration("--ornl-text", theme.textColor),
                 Declaration("--ornl-error", theme.errorColor),
                 Declaration("--ornl-font-family", theme.fontFamily),
                 Declaration("--ornl-font-size", theme.fontSize),
                 Declaration("--ornl-border-width", theme.borderWidth),
                 Declaration("--ornl-border-radius", theme.borderRadius),
                 Declaration("--bpmn-start-event", ThemeString(Text(BPMN_SEMANTIC_COLORS.START_EVENT))),
                 Declaration("--bpmn-end-event", ThemeString(Text(BPMN_SEMANTIC_COLORS.END_EVENT))),
                 Declaration("--bpmn-task", ThemeString(Text(BPMN_SEMANTIC_COLORS.TASK))),
                 Declaration("--bpmn-gateway", ThemeString(Text(BPMN_SEMANTIC_COLORS.GATEWAY))),
                 Declaration("--bpmn-sequence-flow",
                             ThemeString(Text(BPMN_SEMANTIC_COLORS.SEQUENCE_FLOW))),
                 Declaration("--bpmn-pool", ThemeString(Text(BPMN_SEMANTIC_COLORS.POOL))),
                 Declaration("--bpmn-border", ThemeString(Text(BPMN_SEMANTIC_COLORS.BORDER))),
                 Declaration("--bpmn-highlight", ThemeString(Text(BPMN_SEMANTIC_COLORS.HIGHLIGHT)))>>,
               "; ")

\* a generator that merges the options into the module's default object
generateOrnlCssVariables_assign(defaults, options) ==
    [ret |-> CssVariables(SpreadTheme(defaults, options)),
     defaults |-> SpreadTheme(defaults, options)]

\* the string returned, and the module's default object after the call
generateOrnlCssVariables(defaults, options) ==
    [ret |-> CssVariables(SpreadTheme(defaults, options)),
     defaults |-> defaults]

NoThemeCall == [made |-> FALSE, options |-> <<>>, ret |-> <<>>]

\* no call of the theme module yet
ThemeIdle ==
    themeCall = [defaults |-> DEFAULT_ORNL_THEME, first |-> NoThemeCall, last |-> NoThemeCall,
                 between |-> FALSE]

\* one call of generateOrnlCssVariables; the first call and the latest one are
\* kept, between says that a call with other options was made in between
ThemeStep ==
    /\ \E options \in ThemeOptions :
         LET r == generateOrnlCssVariables(themeCall.defaults, options)
             call == [made |-> TRUE, options |-> options, ret |-> r.ret]
         IN  themeCall' =
               IF ~themeCall.first.made
               THEN [themeCall EXCEPT !.defaults = r.defaults, !.first = call]
               ELSE [themeCall EXCEPT !.defaults = r.defaults, !.last = call,
                       !.between = @ \/ (themeCall.last.made
                                          /\ themeCall.last.options # themeCall.first.options)]
    /\ UNCHANGED <<build, processEnv, input, vres, gen, globals, zoomCall, postCall>>
    /\ UNCHANGED <<fileCache, now, ticks, calls, populated, themeObj, paletteCall, clearCall>>

(***************************************************************************)
(* OrnlBpmnTheme: one instance, its stored options and the style element   *)
(* it holds, in a document that other code can take the element out of.    *)
(***************************************************************************)
MaxUpdates == 2

STYLES_HEAD == "/* ORNL BPMN Theme - Generated Styles */ .bpmn-diagram.ornl-theme {"
STYLES_RULES == "; /* Container styling */ ..."

\* the stylesheet text: the variables of the theme between the fixed parts
generateOrnlBpmnStyles(options) ==
    <<STYLES_HEAD>> \o CssVariables(SpreadTheme(DEFAULT_ORNL_THEME, options)) \o <<STYLES_RULES>>

NoElement == [made |-> FALSE, css |-> <<>>, attached |-> FALSE]

\* a style element: its textContent and whether it has a parentNode
createOrnlStyleElement(options) ==
    [made |-> TRUE, css |-> generateOrnlBpmnStyles(options), attached |-> FALSE]

\* the options objects callers construct and update the instance with
UpdateOptions ==
    LET none == [f \in {} |-> ThemeUndefined]
        one(f, v) == [g \in {f} |-> v]
    IN  {none,
         one("primaryColor", ThemeString(Text(ORNL_COLORS.BLACK))),
         one("primaryColor", ThemeString(Text(ORNL_COLORS.SECONDARY))),
         one("primaryColor", ThemeUndefined),
         one("fontSize", ThemeString("14px")),
         [g \in {"primaryColor", "fontSize"} |->
             IF g = "fontSize" THEN ThemeString("14px") ELSE ThemeString(Text(ORNL_COLORS.BLACK))]}

\* new OrnlBpmnTheme(options)
NewTheme(hasDocument, options) ==
    [document |-> hasDocument,
     options |-> SpreadTheme(DEFAULT_ORNL_THEME, options),
     styleElement |-> NoElement,
     orphans |-> {},
     threw |-> FALSE,
     history |-> <<options>>,
     before |-> SpreadTheme(DEFAULT_ORNL_THEME, options),
     removed |-> FALSE,
     applied |-> FALSE]

\* remove(): the element is taken out and forgotten only when it has a parent
remove(o) ==
    IF o.styleElement.made /\ o.styleElement.attached
    THEN [o EXCEPT !.styleElement = NoElement]
    ELSE o

\* an apply that does not take the element held out first
apply_noRemove(o) ==
    IF ~o.document THEN [o EXCEPT !.threw = TRUE]
    ELSE [o EXCEPT !.orphans = IF o.styleElement.made /\ o.styleElement.attached
                               THEN @ \cup {o.styleElement.css} ELSE @,
                   !.styleElement = [createOrnlStyleElement(o.options)
                                       EXCEPT !.attached = TRUE],
                   !.threw = FALSE]

\* apply(): throws without a document; otherwise removes the element held, then
\* creates one from the stored options and appends it to document.head.  An
\* element that is still attached when its reference is overwritten stays in
\* the document (orphans).
apply(o) ==
    IF ~o.document THEN [o EXCEPT !.threw = TRUE]
    ELSE LET r == IF o.styleElement.made THEN remove(o) ELSE o
         IN  [r EXCEPT !.orphans = IF r.styleElement.made /\ r.styleElement.attached
                                   THEN @ \cup {r.styleElement.css} ELSE @,
                       !.styleElement = [createOrnlStyleElement(r.options)
                                           EXCEPT !.attached = TRUE],
                       !.threw = FALSE]

\* a merge that starts from the defaults again
MergeOptions_overDefaults(options, newOptions) == SpreadTheme(DEFAULT_ORNL_THEME, newOptions)

\* { ...this.options, ...newOptions }
MergeOptions(options, newOptions) == SpreadTheme(options, newOptions)

\* update(newOptions): merges, then applies again when an element is held
update(o, newOptions) ==
    LET m == [o EXCEPT !.options = MergeOptions(o.options, newOptions), !.threw = FALSE]
    IN  IF m.styleElement.made THEN apply(m) ELSE m

\* getOptions(): a copy of the stored options
getOptions(o) == [f \in ThemeFields |-> o.options[f]]

ThemeObjIdle == themeObj = [NewTheme(FALSE, [f \in {} |-> ThemeUndefined]) EXCEPT !.history = <<>>]

ThemeObjUnchanged ==
    /\ UNCHANGED <<build, processEnv, input, vres, gen, globals, zoomCall, postCall>>
    /\ UNCHANGED <<fileCache, now, ticks, calls, populated, themeCall, paletteCall, clearCall>>

\* theme.apply() called by the user of the instance
ThemeApply ==
    /\ themeObj.history # <<>>
    /\ themeObj' = [apply(themeObj) EXCEPT !.removed = FALSE, !.applied = themeObj.document]
    /\ ThemeObjUnchanged

\* theme.remove()
ThemeRemove ==
    /\ themeObj.history # <<>>
    /\ themeObj' = [remove(themeObj) EXCEPT !.removed = TRUE, !.threw = FALSE]
    /\ ThemeObjUnchanged

\* theme.update(newOptions)
ThemeUpdate ==
    /\ themeObj.history # <<>>
    /\ Len(themeObj.history) <= MaxUpdates
    /\ \E newOptions \in UpdateOptions :
         themeObj' = [update(themeObj, newOptions) EXCEPT
                         !.history = Append(themeObj.history, newOptions),
                         !.before = themeObj.options]
    /\ ThemeObjUnchanged

\* other code takes the style element out of the document
DetachByOthers ==
    /\ themeObj.styleElement.made /\ themeObj.styleElement.attached
    /\ themeObj' = [themeObj EXCEPT !.styleElement.attached = FALSE]
    /\ ThemeObjUnchanged

(***************************************************************************)
(* Specifications                                                          *)
(***************************************************************************)
RenderIdle ==
    /\ input = [t |-> "unset", s |-> <<>>]
    /\ vres = None
    /\ gen = [r \in Renders |-> [IdleGen EXCEPT !.pc = "off"]]
    /\ globals = [n \in GlobalNames |-> Absent]
    /\ processEnv = [BPMN_USE_FALLBACK |-> FALSE]

LoaderIdle ==
    /\ fileCache = [p \in Paths |-> NoEntry]
    /\ now = 0
    /\ ticks = 0
    /\ calls = [c \in Calls |-> IdleCall]
    /\ populated = [p \in Paths |-> <<>>]

\* the file loader and its cache
Init ==
    /\ build \in Builds
    /\ RenderIdle
    /\ LoaderIdle
    /\ ZoomIdle
    /\ PostIdle
    /\ ThemeIdle
    /\ ThemeObjIdle
    /\ PaletteIdle
    /\ ClearIdle

Next ==
    \/ \E c \in Calls : Begin(c)
    \/ \E c \in Calls : FetchSettles(c)
    \/ \E c \in Calls : BodySettles(c)
    \/ \E c \in Calls : Release(c)
    \/ ClearCache
    \/ Tick

Spec == Init /\ [][Next]_vars


\* validateBpmnXml and one generateStaticSVG call on the same input
InitValidate ==
    /\ build \in Builds
    /\ processEnv \in [BPMN_USE_FALLBACK : BOOLEAN]
    /\ input \in Inputs
    /\ vres = None
    /\ gen = [r \in Renders |-> IF r = 1 THEN IdleGen ELSE [IdleGen EXCEPT !.pc = "off"]]
    /\ globals = [n \in GlobalNames |-> Absent]
    /\ LoaderIdle
    /\ ZoomIdle
    /\ PostIdle
    /\ ThemeIdle
    /\ ThemeObjIdle
    /\ PaletteIdle
    /\ ClearIdle

NextValidate ==
    \/ Validate
    \/ \E r \in Renders : GenStart(r)
    \/ \E r \in Renders : ImportModule(r)
    \/ \E r \in Renders : ImportXML(r)
    \/ \E r \in Renders : SaveSVG(r)

SpecValidate == InitValidate /\ [][NextValidate]_vars

\* overlapping generateStaticSVG calls, in a host with or without browser globals
InitRender ==
    /\ build \in Builds
    /\ processEnv \in [BPMN_USE_FALLBACK : BOOLEAN]
    /\ input = [t |-> "unset", s |-> <<>>]
    /\ vres = None
    /\ gen = [r \in Renders |-> IdleGen]
    /\ globals \in {[n \in GlobalNames |-> Absent], [n \in GlobalNames |-> Host]}
    /\ LoaderIdle
    /\ ZoomIdle
    /\ PostIdle
    /\ ThemeIdle
    /\ ThemeObjIdle
    /\ PaletteIdle
    /\ ClearIdle

NextRender ==
    \/ \E r \in Renders : GenStart(r)
    \/ \E r \in Renders : ImportModule(r)
    \/ \E r \in Renders : ImportXML(r)
    \/ \E r \in Renders : SaveSVG(r)

SpecRender == InitRender /\ [][NextRender]_vars


\* the zoom step on every diagram and configuration
InitZoom ==
    /\ build \in Builds
    /\ RenderIdle
    /\ LoaderIdle
    /\ PostIdle
    /\ ThemeIdle
    /\ ThemeObjIdle
    /\ PaletteIdle
    /\ ClearIdle
    /\ \E cfg \in ZoomConfigs, nonEmpty \in BOOLEAN, hasBounds \in BOOLEAN :
         /\ hasBounds => nonEmpty
         /\ zoomCall = [pc |-> "importXML", cfg |-> cfg, nonEmpty |-> nonEmpty,
                        hasBounds |-> hasBounds, out |-> NoZoomOutcome]

NextZoom == ZoomStep

SpecZoom == InitZoom /\ [][NextZoom]_vars

\* the post-processing on every engine output
InitPost ==
    /\ build \in Builds
    /\ RenderIdle
    /\ LoaderIdle
    /\ ZoomIdle
    /\ ThemeIdle
    /\ ThemeObjIdle
    /\ PaletteIdle
    /\ ClearIdle
    /\ \E svg \in SvgOutputs, optimalBounds \in BOOLEAN, includeTheme \in BOOLEAN,
          additionalCss \in {<<>>, <<EXTRA_CSS>>} :
         postCall = [pc |-> "saveSVG", svg |-> svg, optimalBounds |-> optimalBounds,
                     includeTheme |-> includeTheme, additionalCss |-> additionalCss,
                     positioned |-> <<>>, out |-> <<>>]

NextPost == PostStep

SpecPost == InitPost /\ [][NextPost]_vars

\* generateOrnlCssVariables on every options object, call after call
InitTheme ==
    /\ build = "core"
    /\ RenderIdle
    /\ LoaderIdle
    /\ ZoomIdle
    /\ PostIdle
    /\ ThemeIdle
    /\ ThemeObjIdle
    /\ PaletteIdle
    /\ ClearIdle

NextTheme == ThemeStep

SpecTheme == InitTheme /\ [][NextTheme]_vars

\* one OrnlBpmnTheme instance under apply, update and remove
InitThemeObj ==
    /\ build = "core"
    /\ RenderIdle
    /\ LoaderIdle
    /\ ZoomIdle
    /\ PostIdle
    /\ ThemeIdle
    /\ PaletteIdle
    /\ ClearIdle
    /\ \E hasDocument \in BOOLEAN, options \in UpdateOptions :
         themeObj = NewTheme(hasDocument, options)

NextThemeObj ==
    \/ ThemeApply
    \/ ThemeRemove
    \/ ThemeUpdate
    \/ DetachByOthers

SpecThemeObj == InitThemeObj /\ [][NextThemeObj]_vars

\* reads of the exported colour maps
InitPalette ==
    /\ build = "core"
    /\ RenderIdle
    /\ LoaderIdle
    /\ ZoomIdle
    /\ PostIdle
    /\ ThemeIdle
    /\ ThemeObjIdle
    /\ PaletteIdle
    /\ ClearIdle

NextPalette == PaletteLookup

SpecPalette == InitPalette /\ [][NextPalette]_vars

\* clearBpmnFileCache on every cache two loads can leave, and the load after it
InitClear ==
    /\ build = "core"
    /\ RenderIdle
    /\ now = 0 /\ ticks = 0
    /\ calls = [c \in Calls |-> IdleCall]
    /\ \E ea \in {NoEntry, EntryOf(DOC_A, TRUE), EntryOf(DOC_BAD, FALSE)},
          eb \in {NoEntry, EntryOf(DOC_A, TRUE), EntryOf(DOC_BAD, FALSE)} :
         /\ fileCache = [p \in Paths |-> IF p = PATH_A THEN ea ELSE IF p = PATH_B THEN eb
                                          ELSE NoEntry]
         /\ populated = [p \in Paths |-> IF fileCache[p] = NoEntry THEN <<>>
                                          ELSE fileCache[p].result.content]
    /\ ZoomIdle
    /\ PostIdle
    /\ ThemeIdle
    /\ ThemeObjIdle
    /\ PaletteIdle
    /\ clearCall = [pc |-> "idle", arg |-> JsUndefined, before |-> fileCache,
                    path |-> JsUndefined, fetched |-> FALSE]

NextClear ==
    \/ ClearStep
    \/ ReloadStep

SpecClear == InitClear /\ [][NextClear]_vars

(***************************************************************************)
(* The claims                                                              *)
(***************************************************************************)
Started(c) == calls[c].pc \in {"fetch", "body", "done"}
ServedFromCache(c) ==
    calls[c].pc = "done" /\ ~calls[c].fetched /\ calls[c].outcome.kind = "resolved"

\* C1: a call made while the cache holds an entry for its key that is younger
\* than the configured cacheTtl returns the content of the load that populated
\* the entry and does not invoke the network layer.
C1_FreshEntryServedFromCache ==
    \A c \in Calls :
        (Started(c) /\ calls[c].freshAtCall) =>
            /\ ServedFromCache(c)
            /\ calls[c].outcome.value.content = populated[calls[c].path]

C1_Witness ==
    \E c \in Calls :
        /\ ServedFromCache(c)
        /\ calls[c].freshAtCall
        /\ now > fileCache[calls[c].path].timestamp

\* C2 (as claimed): for every configured cacheTtl >= 0, 0 included, a call made
\* when the entry is at least cacheTtl old fetches afresh: a call served from
\* the cache found an entry younger than the cacheTtl it configured.
C2_ExpiredEntryRefetched ==
    \A c \in Calls :
        (/\ ServedFromCache(c)
         /\ calls[c].opts.cacheTtl # NotGiven
         /\ calls[c].opts.cacheTtl[1] >= 0)
        => (now - fileCache[calls[c].path].timestamp) < calls[c].opts.cacheTtl[1]

\* C3: overlapping calls for one key each fetch, and when a call completes
\* after an overlapping call for its key has completed, the entry of the key
\* is the result of the later one, with the later one's timestamp.
C3_LastWriterWins ==
    /\ \A c \in InFlight : calls[c].fetched
    /\ \A c \in Calls :
        (calls[c].pc = "done" /\ calls[c].peerResolved) =>
            /\ calls[c].fetched
            /\ calls[c].outcome.kind = "resolved" =>
                 fileCache[calls[c].path] =
                     [present |-> TRUE, result |-> calls[c].outcome.value,
                      timestamp |-> calls[c].startNow]

C3_Witness ==
    \E c \in Calls :
        /\ calls[c].pc = "done"
        /\ calls[c].peerResolved
        /\ calls[c].outcome.kind = "resolved"

\* C4 (as claimed): overlapping generateStaticSVG calls do not interfere: while
\* a call is between its installation of the globals and its teardown,
\* window and document are the ones it installed.
C4_NoInterference ==
    \A r \in Renders :
        gen[r].pc \in {"importXML", "saveSVG"} =>
            globals["window"] = DomOf(r) /\ globals["document"] = DomOf(r)

HasNamespaceMarker(s) == Includes(s, XMLNS_BPMN) \/ Includes(s, OMG_BPMN_URL)
Validated == vres # None
ReportedValid == vres.kind = "return" /\ vres.isValid /\ vres.errors = <<>>
ReportedInvalid == vres.kind = "throw" \/ ~vres.isValid

\* C5 (as claimed): a string with as many '<' as '>' and a BPMN namespace
\* marker is reported valid.
C5_BalancedWithNamespaceIsValid ==
    (Validated /\ IsString(input) /\ ~Unmatched(input.s) /\ HasNamespaceMarker(input.s))
        => ReportedValid

\* C5 (amended): a string with as many '<' as '>' and a BPMN namespace marker
\* that also starts, once trimmed, with '<' and contains '<definitions' or
\* '<bpmn:definitions' is reported valid.
C5_WellFormedWithNamespaceIsValid ==
    (/\ Validated /\ IsString(input) /\ ~Unmatched(input.s) /\ HasNamespaceMarker(input.s)
     /\ StartsWith(Trim(input.s), LT)
     /\ (Includes(input.s, DEFINITIONS_OPEN) \/ Includes(input.s, BPMN_DEFINITIONS_OPEN)))
        => ReportedValid

C5_Witness ==
    /\ Validated /\ IsString(input) /\ ~Unmatched(input.s) /\ HasNamespaceMarker(input.s)
    /\ StartsWith(Trim(input.s), LT)
    /\ Includes(input.s, DEFINITIONS_OPEN)
    /\ ReportedValid

\* C6 (as claimed): every string whose count of '<' differs from its count of
\* '>' gets a result with at least one warning.
C6_UnbalancedYieldsWarning ==
    (Validated /\ IsString(input) /\ CountChar(input.s, "<") # CountChar(input.s, ">"))
        => (vres.kind = "return" /\ Len(vres.warnings) >= 1)

\* C7 (as claimed): a non-string or empty input gets, without a throw, a
\* result with isValid = false and a non-empty errors list.
C7_EmptyOrNonStringReportedInvalid ==
    (Validated /\ (~IsString(input) \/ input.s = <<>>))
        => (vres.kind = "return" /\ ~vres.isValid /\ Len(vres.errors) >= 1)

InErrors(msg) == \E i \in 1..Len(vres.errors) : vres.errors[i] = msg

\* C8 (as claimed): validateBpmnXml never throws; each failed check is an entry
\* of errors, and isValid is true exactly when errors is empty.
C8_FailuresReportedNotThrown ==
    Validated =>
        /\ vres.kind = "return"
        /\ vres.isValid <=> (vres.errors = <<>>)
        /\ (Truthy(input) /\ IsString(input)) =>
             /\ ~StartsWith(Trim(input.s), LT) => InErrors(MSG_OPENING_TAG)
             /\ ~HasNamespaceMarker(input.s) => InErrors(MSG_NAMESPACE)
             /\ (~Includes(input.s, DEFINITIONS_OPEN)
                   /\ ~Includes(input.s, BPMN_DEFINITIONS_OPEN)) => InErrors(MSG_DEFINITIONS)

RenderedOn(r) == gen[r].pc \notin {"idle", "off"} /\ gen[r].xml = input
RejectedBeforeRender(r) ==
    /\ gen[r].pc = "done"
    /\ gen[r].result.kind = "throw"
    /\ gen[r].result.errType = "SvgGenerationError"
    /\ gen[r].result.msg \in {MSG_GEN_NON_EMPTY, MSG_MISSING_BPMN}
    /\ ~gen[r].dom
    /\ ~gen[r].viewer

\* C9 (as claimed): every input validateBpmnXml reports invalid makes
\* generateStaticSVG throw from its pre-render checks, with no DOM created and
\* the engine not invoked.
C9_InvalidInputsRejectedBeforeRender ==
    \A r \in Renders :
        (Validated /\ ReportedInvalid /\ RenderedOn(r)) => RejectedBeforeRender(r)

LacksDefinitions(v) ==
    \/ ~Truthy(v)
    \/ ~IsString(v)
    \/ ~Includes(v.s, BPMN_OPEN) /\ ~Includes(v.s, DEFINITIONS_OPEN)

\* C9 (amended): every input validateBpmnXml reports invalid that is empty, not
\* a string, or contains neither '<bpmn' nor '<definitions' makes
\* generateStaticSVG throw from its pre-render checks, with no DOM created and
\* the engine not invoked.
C9_InputsLackingDefinitionsRejectedBeforeRender ==
    \A r \in Renders :
        (Validated /\ ReportedInvalid /\ LacksDefinitions(input) /\ RenderedOn(r))
            => RejectedBeforeRender(r)

C9_Witness ==
    \E r \in Renders :
        /\ Validated /\ ReportedInvalid /\ RenderedOn(r)
        /\ IsString(input) /\ Truthy(input)
        /\ RejectedBeforeRender(r)

\* C10: every rejection of loadBpmnFile is a FileLoadError carrying the path
\* argument, with the underlying exception, when there is one, as its cause.
C10_RejectionsAreFileLoadErrors ==
    \A c \in Calls :
        (calls[c].pc = "done" /\ calls[c].outcome.kind = "rejected") =>
            /\ calls[c].outcome.error.type = "FileLoadError"
            /\ calls[c].outcome.error.filePath = calls[c].path
            /\ calls[c].raised.type \notin {"none", "FileLoadError"} =>
                 calls[c].outcome.error.cause = calls[c].raised

C10_Witness ==
    \E c \in Calls :
        /\ calls[c].pc = "done"
        /\ calls[c].outcome.kind = "rejected"
        /\ calls[c].raised.type \notin {"none", "FileLoadError"}
        /\ calls[c].outcome.error.cause = calls[c].raised


Rejects(r) == gen[r].pc = "done" /\ gen[r].result.kind = "throw"

\* C11 (as claimed): every rejection of generateStaticSVG is an
\* SvgGenerationError carrying the input XML, and an exception of another type
\* raised while rendering is rethrown with that exception as the cause.
C11_RejectionsCarryXmlAndCause ==
    \A r \in Renders :
        Rejects(r) =>
            /\ gen[r].result.errType = "SvgGenerationError"
            /\ gen[r].result.hasXml
            /\ gen[r].raised # "none" => gen[r].result.cause = gen[r].raised

\* C11 (amended): every rejection of generateStaticSVG is an SvgGenerationError;
\* it carries the input XML unless the input is empty or not a string, and an
\* exception of another type raised while rendering is rethrown with that
\* exception as the cause.
C11_RejectionsCarryCauseAndStringXml ==
    \A r \in Renders :
        Rejects(r) =>
            /\ gen[r].result.errType = "SvgGenerationError"
            /\ gen[r].result.hasXml <=> (Truthy(gen[r].xml) /\ IsString(gen[r].xml))
            /\ gen[r].raised # "none" => gen[r].result.cause = gen[r].raised

C11_Witness ==
    \E r \in Renders :
        /\ Rejects(r)
        /\ gen[r].raised = "postError"
        /\ gen[r].result.cause = "postError"
        /\ gen[r].result.hasXml


CleanupWarningLists ==
    {<<>>, <<WARN_VIEWER_CLEANUP>>, <<WARN_DOM_CLEANUP>>,
     <<WARN_VIEWER_CLEANUP, WARN_DOM_CLEANUP>>}

SameOutcome(res, primary) ==
    /\ res.kind = primary.kind
    /\ res.errType = primary.errType
    /\ res.msg = primary.msg
    /\ res.hasXml = primary.hasXml
    /\ res.cause = primary.cause
    /\ res.metrics = primary.metrics
    /\ \E w \in CleanupWarningLists : res.warnings = primary.warnings \o w
    /\ res.kind = "throw" => res = primary

\* C12: when a call settles, whatever viewer.destroy() and the DOM's close() did,
\* its outcome is the one the try and catch blocks arrived at, with at most the
\* cleanup warnings added; the viewer created was destroyed, the DOM created
\* was closed, and the globals are removed.
C12_CleanupFailuresAreWarnings ==
    [][\A r \in Renders :
          (gen[r].pc \in {"importXML", "saveSVG"} /\ gen'[r].pc = "done") =>
              /\ SameOutcome(gen'[r].result, gen'[r].primary)
              /\ gen'[r].viewer => gen'[r].destroyed
              /\ gen'[r].dom => gen'[r].closed
              /\ \A n \in GlobalNames \ {"SVGMatrix"} : globals'[n] = Absent]_vars

C12_Witness ==
    \E r \in Renders :
        /\ gen[r].pc = "done"
        /\ gen[r].result.kind = "return"
        /\ gen[r].result.warnings = <<WARN_VIEWER_CLEANUP, WARN_DOM_CLEANUP>>
        /\ gen[r].closed
        /\ globals["window"] = Absent


\* C13 (as claimed): a call whose network operation, the body read included,
\* has not completed within timeout milliseconds is aborted and rejects: once
\* the deadline has passed, a call that fetched is either rejected or still
\* waiting for the fetch promise the abort settles.
C13_NoCompletionPastDeadline ==
    \A c \in Calls :
        (calls[c].fetched /\ now - calls[c].startNow >= DEFAULT_TIMEOUT) =>
            \/ calls[c].pc = "fetch"
            \/ calls[c].pc = "done" /\ calls[c].outcome.kind = "rejected"

ConfiguredMaxSize(c) == Merged(calls[c].opts.maxSize, DEFAULT_MAX_SIZE)

\* C14: every result loadBpmnFile returns has as size the UTF-8 byte length of
\* its content, at most the configured maxSize (so a larger body is rejected
\* whatever was declared), and no body is read of a response whose declared
\* content-length exceeds maxSize.
C14_MaxSizeGuard ==
    \A c \in Calls :
        /\ (calls[c].pc = "done" /\ calls[c].fetched /\ calls[c].outcome.kind = "resolved") =>
              /\ calls[c].outcome.value.size =
                    2 * CountChar(calls[c].outcome.value.content, "U+00E9")
                    + (Len(calls[c].outcome.value.content)
                         - CountChar(calls[c].outcome.value.content, "U+00E9"))
              /\ calls[c].outcome.value.size <= ConfiguredMaxSize(c)
        /\ calls[c].pc = "body" => ~calls[c].oversize

C14_Witness ==
    \E c \in Calls :
        /\ calls[c].pc = "done"
        /\ calls[c].fetched
        /\ calls[c].outcome.kind = "resolved"
        /\ calls[c].opts.maxSize # NotGiven
        /\ calls[c].outcome.value.size = ConfiguredMaxSize(c)


HasWarning(ws, w) == \E i \in 1..Len(ws) : ws[i] = w

\* C15 (as claimed): for a non-empty diagram with fitViewport enabled and
\* minZoom <= maxZoom the zoom returned lies within [minZoom, maxZoom] on every
\* path, and a 'Zoom constrained' warning is present exactly when the zoom the
\* engine fitted lay outside the range.
C15_ZoomWithinRange ==
    (/\ zoomCall.pc = "saveSVG"
     /\ ~zoomCall.out.thrown
     /\ zoomCall.nonEmpty
     /\ zoomCall.cfg.fitViewport
     /\ zoomCall.cfg.minZoom <= zoomCall.cfg.maxZoom)
    => /\ zoomCall.cfg.minZoom <= zoomCall.out.finalZoom
       /\ zoomCall.out.finalZoom <= zoomCall.cfg.maxZoom
       /\ (HasWarning(zoomCall.out.warnings, WARN_ZOOM_MIN)
            \/ HasWarning(zoomCall.out.warnings, WARN_ZOOM_MAX))
          <=> (/\ zoomCall.out.fitted # <<>>
               /\ (zoomCall.out.fitted[1] < zoomCall.cfg.minZoom
                    \/ zoomCall.out.fitted[1] > zoomCall.cfg.maxZoom))


\* the markup with the style block right after the '>' that closes the first
\* <svg ...> tag, or in front when there is no such tag
SplicedAfterSvgTag(svg, additionalCss) ==
    LET styleTag == StyleTag(IF additionalCss = <<>> THEN <<THEME_CSS>>
                             ELSE <<THEME_CSS, NL>> \o additionalCss)
        starts == {i \in 1..Len(svg) : svg[i] = SVG_START
                                         /\ \E j \in (i + 1)..Len(svg) : svg[j] = ">"}
    IN  IF starts # {}
        THEN LET i == CHOOSE x \in starts : \A y \in starts : x <= y
                 j == CHOOSE x \in (i + 1)..Len(svg) :
                          svg[x] = ">" /\ \A y \in (i + 1)..(x - 1) : svg[y] # ">"
             IN  SubSeq(svg, 1, j) \o <<NL>> \o styleTag \o <<NL>>
                 \o SubSeq(svg, j + 1, Len(svg))
        ELSE styleTag \o <<NL>> \o svg

\* C16 (as claimed): with includeTheme enabled the markup returned has the
\* style block (theme CSS, then additionalCss) right after the '>' closing the
\* opening <svg ...> tag, also when a declaration precedes that tag, and in
\* front of the markup when there is no <svg> tag.
C16_StyleSplicedAfterSvgTag ==
    (postCall.pc = "done" /\ postCall.includeTheme) =>
        postCall.out = SplicedAfterSvgTag(postCall.positioned, postCall.additionalCss)

CENTERING_GROUP_START == "<g transform='translate("

\* C17 (as claimed): the markup returned for a non-empty diagram has its content
\* wrapped in a centering transform group.
C17_CenteringApplied ==
    (/\ postCall.pc = "done"
     /\ MatchesSvgOpenTag(postCall.svg)
     /\ \E i \in 1..Len(postCall.svg) : postCall.svg[i] = ELEMENT_START)
    => \E i \in 1..Len(postCall.out) : postCall.out[i] = CENTERING_GROUP_START


\* the stages of a render in the order the claim gives them; the import of
\* the engine module (part_002) has its place between the checks and the DOM
RenderOrder == <<"checks", "importModule", "dom", "viewer", "importXML", "zoom", "saveSVG",
                 "post">>

IsPrefix(s, t) == Len(s) <= Len(t) /\ SubSeq(t, 1, Len(s)) = s

WithoutModuleImport(s) == SelectSeq(s, LAMBDA x : x # "importModule")

Entered(r, stage) == \E i \in 1..Len(gen[r].steps) : gen[r].steps[i] = stage

\* C18: a call enters its stages in the order checks, DOM, viewer, importXML,
\* zoom, saveSVG, post-processing, each only after the one before succeeded;
\* an input that is empty, not a string or without '<bpmn' and '<definitions'
\* gets no further than the checks: no DOM is created, no engine invoked.
C18_LinearControlFlow ==
    \A r \in Renders :
        /\ \/ IsPrefix(gen[r].steps, RenderOrder)
           \/ IsPrefix(gen[r].steps, WithoutModuleImport(RenderOrder))
        /\ gen[r].pc = "importXML" => gen[r].steps[Len(gen[r].steps)] = "importXML"
        /\ gen[r].pc = "saveSVG" => gen[r].steps[Len(gen[r].steps)] = "saveSVG"
        /\ Entered(r, "post") => gen[r].raised \in {"none", "postError"}
        /\ (gen[r].pc \notin {"idle", "off"} /\ LacksDefinitions(gen[r].xml)) =>
              /\ gen[r].steps = <<"checks">>
              /\ gen[r].pc = "done"
              /\ ~gen[r].dom
              /\ ~gen[r].viewer

C18_Witness ==
    \E r, q \in Renders :
        /\ gen[r].pc = "done"
        /\ gen[r].result.kind = "return"
        /\ WithoutModuleImport(gen[r].steps) = WithoutModuleImport(RenderOrder)
        /\ gen[q].pc = "done"
        /\ LacksDefinitions(gen[q].xml)
        /\ gen[q].steps = <<"checks">>


IsPlaceholder(res) ==
    /\ res.kind = "fallback"
    /\ res.metrics = [width |-> "config.width", height |-> "config.height", zoom |-> "1.0"]
    /\ Len(res.warnings) = 1

\* C19 (as claimed): with BPMN_USE_FALLBACK = 'true' a call whose input passes
\* the pre-render checks returns the placeholder (configured width and height,
\* zoom 1.0, one warning) with no DOM, no engine and no change of a global
\* binding, a call whose input fails them throws SvgGenerationError; and a call
\* for which every import of the engine failed returns the same placeholder.
C19_FallbackSwitch ==
    \A r \in Renders :
        /\ (processEnv.BPMN_USE_FALLBACK /\ gen[r].pc \notin {"idle", "off"}) =>
              /\ gen[r].pc = "done"
              /\ gen[r].steps = <<"checks">>
              /\ ~gen[r].dom /\ ~gen[r].viewer
              /\ IF LacksDefinitions(gen[r].xml)
                 THEN gen[r].result.kind = "throw"
                      /\ gen[r].result.errType = "SvgGenerationError"
                 ELSE IsPlaceholder(gen[r].result)
              /\ \A n \in GlobalNames : \A q \in Renders : globals[n] # DomOf(q)
        /\ (gen[r].pc = "done" /\ gen[r].steps = <<"checks", "importModule">>) =>
              IsPlaceholder(gen[r].result)


\* the name of the declaration that belongs to a theme field
OrnlVariable ==
    [primaryColor |-> "--ornl-primary", secondaryColor |-> "--ornl-secondary",
     backgroundColor |-> "--ornl-background", textColor |-> "--ornl-text",
     errorColor |-> "--ornl-error", fontFamily |-> "--ornl-font-family",
     fontSize |-> "--ornl-font-size", borderWidth |-> "--ornl-border-width",
     borderRadius |-> "--ornl-border-radius"]

\* the text after "name: " in a returned string
DeclaredValue(ret, name) ==
    LET i == CHOOSE i \in 1..Len(ret) : ret[i] = name IN ret[i + 2]

DeclaredOnce(ret, name) ==
    Cardinality({i \in 1..Len(ret) : ret[i] = name}) = 1

ReflectsOptions(call) ==
    \A f \in ThemeFields :
        /\ DeclaredOnce(call.ret, OrnlVariable[f])
        /\ DeclaredValue(call.ret, OrnlVariable[f]) =
              IF f \in DOMAIN call.options
              THEN TemplateString(call.options[f])
              ELSE DEFAULT_ORNL_THEME[f].s

\* C20: generateOrnlCssVariables leaves the module's defaults as they are, two
\* calls with equal options return the same string whatever calls were made in
\* between, and in every returned string the declaration of a field the caller
\* supplied carries the supplied value and that of any other field its default.
C20_CssVariablesDeterministic ==
    /\ themeCall.defaults = DEFAULT_ORNL_THEME
    /\ (themeCall.first.made /\ themeCall.last.made
          /\ themeCall.first.options = themeCall.last.options)
         => themeCall.first.ret = themeCall.last.ret
    /\ themeCall.first.made => ReflectsOptions(themeCall.first)
    /\ themeCall.last.made => ReflectsOptions(themeCall.last)

C20_Witness ==
    /\ themeCall.first.made /\ themeCall.last.made /\ themeCall.between
    /\ themeCall.first.options = themeCall.last.options
    /\ \E f \in DOMAIN themeCall.last.options : themeCall.last.options[f].t = "string"


\* the value of field f in the latest of the options objects that has it
RECURSIVE LatestSupplied(_, _)
LatestSupplied(history, f) ==
    IF history = <<>> THEN DEFAULT_ORNL_THEME[f]
    ELSE IF f \in DOMAIN history[Len(history)] THEN history[Len(history)][f]
    ELSE LatestSupplied(SubSeq(history, 1, Len(history) - 1), f)

\* C21: after new OrnlBpmnTheme(o0) and update(o1) ... update(on), getOptions()
\* gives for every field the value of the latest oi that has the field, the
\* default when none has it, and an update leaves the fields it does not name
\* as they were.
C21_LastWriteWinsPerField ==
    themeObj.history # <<>> =>
        \A f \in ThemeFields :
            /\ getOptions(themeObj)[f] = LatestSupplied(themeObj.history, f)
            /\ (Len(themeObj.history) > 1
                  /\ f \notin DOMAIN themeObj.history[Len(themeObj.history)])
                 => getOptions(themeObj)[f] = themeObj.before[f]

C21_Witness ==
    /\ Len(themeObj.history) = 3
    /\ "primaryColor" \in DOMAIN themeObj.history[1]
    /\ DOMAIN themeObj.history[2] = {"fontSize"}
    /\ "primaryColor" \in DOMAIN themeObj.history[3]
    /\ themeObj.history[3]["primaryColor"] # themeObj.history[1]["primaryColor"]
    /\ getOptions(themeObj)["fontSize"] = ThemeString("14px")


Looked(map, token) ==
    paletteCall.last.made /\ paletteCall.last.map = map /\ paletteCall.last.token = token

Values(map) == {map[k] : k \in DOMAIN map}

\* C22: read from BPMN_SEMANTIC_COLORS, TASK is ORNL_COLORS.PRIMARY, ERROR and
\* END_EVENT are ORNL_ACCENTS.FORGE, START_EVENT is SPARK, GATEWAY is PLASMA and
\* SEQUENCE_FLOW is TEXT_PRIMARY, and every value read from it is a value of
\* ORNL_COLORS or of ORNL_ACCENTS.
C22_SemanticColorsDerived ==
    LET v == paletteCall.last.value
        sem == "BPMN_SEMANTIC_COLORS"
    IN  /\ Looked(sem, "TASK") => v = ORNL_COLORS.PRIMARY
        /\ Looked(sem, "ERROR") => v = ORNL_ACCENTS.FORGE
        /\ Looked(sem, "END_EVENT") => v = ORNL_ACCENTS.FORGE
        /\ Looked(sem, "START_EVENT") => v = ORNL_ACCENTS.SPARK
        /\ Looked(sem, "GATEWAY") => v = ORNL_ACCENTS.PLASMA
        /\ Looked(sem, "SEQUENCE_FLOW") => v = ORNL_COLORS.TEXT_PRIMARY
        /\ (paletteCall.last.made /\ paletteCall.last.map = sem)
             => v \in Values(ORNL_COLORS) \cup Values(ORNL_ACCENTS)
        /\ (paletteCall.prev.made /\ paletteCall.prev.map = "ORNL_COLORS"
              /\ paletteCall.prev.token = "PRIMARY" /\ Looked(sem, "TASK"))
             => v = paletteCall.prev.value

C22_Witness ==
    /\ paletteCall.prev.made /\ paletteCall.prev.map = "ORNL_COLORS"
    /\ paletteCall.prev.token = "PRIMARY"
    /\ Looked("BPMN_SEMANTIC_COLORS", "TASK")

\* the literals of the contract
ContractLiterals ==
    [PRIMARY |-> "#00662C", SECONDARY |-> "#00454D", NEUTRAL |-> "#DBDCDB",
     TEXT_PRIMARY |-> "#373A36", WHITE |-> "#FFFFFF", BLACK |-> "#000000",
     FORGE |-> "#FE5000", SPARK |-> "#F5B800", PLASMA |-> "#0077C8", PULSAR |-> "#702F8A"]

SourceMaps == {"ORNL_COLORS", "ORNL_ACCENTS", "BPMN_SEMANTIC_COLORS"}

\* C23: a read of a named token of ORNL_COLORS or ORNL_ACCENTS gives the literal
\* of the contract, every time; COMPLETE_PALETTE has more than 15 tokens, has
\* every token of the three source maps, and a read of a token from it gives
\* the value the token has in each source map that has it.
C23_PaletteLiteralsFixed ==
    LET l == paletteCall.last
        q == paletteCall.prev
    IN  /\ (l.made /\ l.map \in {"ORNL_COLORS", "ORNL_ACCENTS"})
             => Text(l.value) = ContractLiterals[l.token]
        /\ (l.made /\ q.made /\ l.map = q.map /\ l.token = q.token) => l.value = q.value
        /\ l.made =>
             /\ Cardinality(DOMAIN PaletteMaps["COMPLETE_PALETTE"]) > 15
             /\ \A n \in SourceMaps :
                   DOMAIN PaletteMaps[n] \subseteq DOMAIN PaletteMaps["COMPLETE_PALETTE"]
        /\ (l.made /\ l.map = "COMPLETE_PALETTE") =>
             \A n \in SourceMaps :
                 l.token \in DOMAIN PaletteMaps[n] => l.value = PaletteMaps[n][l.token]
        /\ (l.made /\ q.made /\ q.map = "COMPLETE_PALETTE" /\ l.map \in SourceMaps
              /\ l.token = q.token) => l.value = q.value

C23_Witness ==
    /\ paletteCall.prev.made /\ paletteCall.prev.map = "COMPLETE_PALETTE"
    /\ paletteCall.prev.token = "FORGE"
    /\ Looked("ORNL_ACCENTS", "FORGE")

HexDigits ==
    {"0", "1", "2", "3", "4", "5", "6", "7", "8", "9",
     "A", "B", "C", "D", "E", "F", "a", "b", "c", "d", "e", "f"}

\* /^#[0-9A-F]{6}$/i
IsHexColor(chars) ==
    /\ Len(chars) = 7
    /\ chars[1] = "#"
    /\ \A i \in 2..7 : chars[i] \in HexDigits

\* C24: every value read from ORNL_COLORS or ORNL_ACCENTS is '#' followed by six
\* hexadecimal digits, seven characters in all.
C24_HexColorFormat ==
    (paletteCall.last.made /\ paletteCall.last.map \in {"ORNL_COLORS", "ORNL_ACCENTS"})
        => IsHexColor(paletteCall.last.value)

C24_Witness ==
    /\ Looked("ORNL_ACCENTS", "PULSAR")
    /\ paletteCall.prev.made /\ paletteCall.prev.map = "ORNL_COLORS"


\* C25 (as claimed): clearBpmnFileCache(k) with a string k, the empty string
\* included, removes the entry of k and leaves the entry of every other key as
\* it was; without an argument it removes every entry; and the next
\* loadBpmnFileWithCache of a key whose entry was removed fetches.
C25_ClearRemovesOnlyThatKey ==
    /\ clearCall.pc \in {"cleared", "reloaded"} =>
          IF IsString(clearCall.arg)
          THEN \A p \in Paths :
                  fileCache[p] = IF p = clearCall.arg THEN NoEntry ELSE clearCall.before[p]
          ELSE \A p \in Paths : fileCache[p] = NoEntry
    /\ (clearCall.pc = "reloaded" /\ clearCall.before[clearCall.path] # NoEntry
          /\ fileCache[clearCall.path] = NoEntry) => clearCall.fetched


\* C26 (as claimed): when a generateStaticSVG call has settled, resolved or
\* rejected, and no other call was made, window, document, navigator,
\* HTMLElement, SVGElement and SVGMatrix are bound, or absent, as they were
\* when the call was made.
C26_GlobalsRestored ==
    \A r \in Renders :
        (gen[r].pc = "done" /\ \A q \in Renders \ {r} : gen[q].pc \in {"idle", "off"})
            => globals = gen[r].globalsBefore


Settles(c) == calls[c].pc \in {"idle", "fetch", "body"} /\ calls'[c].pc = "done"

\* C27: a loadBpmnFileWithCache call that rejects leaves the cache as it was,
\* the entry of its own key included, and a call that resolves changes no
\* entry but that of its own key.
C27_RejectedLoadLeavesCache ==
    [][\A c \in Calls :
          Settles(c) =>
              /\ calls'[c].outcome.kind = "rejected" => fileCache' = fileCache
              /\ \A p \in Paths \ {calls'[c].path} : fileCache'[p] = fileCache[p]]_vars

\* a call for a key with an expired entry was rejected after its fetch
C27_Witness ==
    \E c \in Calls :
        /\ calls[c].pc = "done"
        /\ calls[c].fetched
        /\ calls[c].outcome.kind = "rejected"
        /\ fileCache[calls[c].path] # NoEntry
        /\ ~FreshEntry(fileCache[calls[c].path], calls[c].startNow, calls[c].opts.cacheTtl)

\* C28 (as claimed): a call made with validation enabled, the default, that
\* resolves returns content validateBpmnXml accepts and a result whose
\* validation.isValid is true, whatever calls were made on the key before.
C28_ValidatedResultsOnly ==
    \A c \in Calls :
        (/\ calls[c].pc = "done"
         /\ calls[c].outcome.kind = "resolved"
         /\ Merged(calls[c].opts.validate, DEFAULT_VALIDATE))
        => /\ calls[c].outcome.value.validation # None
           /\ calls[c].outcome.value.validation.isValid
           /\ ValidateIn(build, JsString(calls[c].outcome.value.content)).isValid


\* the style elements of the instance that are in the document
AttachedCss ==
    themeObj.orphans \cup (IF themeObj.styleElement.made /\ themeObj.styleElement.attached
                           THEN {themeObj.styleElement.css} ELSE {})

AttachedCount ==
    Cardinality(themeObj.orphans)
      + (IF themeObj.styleElement.made /\ themeObj.styleElement.attached THEN 1 ELSE 0)

\* C29: in an environment with a document, whatever apply(), update() and
\* remove() calls were made on the instance, at most one style element it
\* created is in the document, and the CSS of an element in the document is the
\* stylesheet generated from the options the instance holds now.
C29_AtMostOneStyleElement ==
    (themeObj.history # <<>> /\ themeObj.document) =>
        /\ AttachedCount <= 1
        /\ \A css \in AttachedCss : css = generateOrnlBpmnStyles(getOptions(themeObj))
        /\ (themeObj.applied /\ ~themeObj.removed /\ ~themeObj.threw) => themeObj.styleElement.made

\* applied, updated twice with different values, and the element still attached
C29_Witness ==
    /\ themeObj.document /\ themeObj.applied
    /\ Len(themeObj.history) = 3
    /\ themeObj.history[3] # themeObj.history[2]
    /\ DOMAIN themeObj.history[3] # {}
    /\ AttachedCount = 1

\* C30 (as claimed): after remove() no style element of the instance is in the
\* document and none is put there by update() calls that follow, also when
\* other code had taken the element out before remove() was called; update()
\* on an instance never applied attaches nothing.
C30_UpdateRemountsOnlyIfApplied ==
    /\ themeObj.removed => AttachedCount = 0
    /\ (themeObj.history # <<>> /\ ~themeObj.applied) => AttachedCount = 0

====
